---------------------------- MODULE Spec2Model ----------------------------
(***************************************************************************)
(* Restaurant search aggregation engine (src/main.go): the proximity       *)
(* cache (LocationCache), deduplication, ranking, the commercial fan-out   *)
(* and the both-provider aggregator.                                       *)
(*                                                                         *)
(* Conventions of the model                                                *)
(*   - coordinates are integers, one unit = 0.0001 degree, near the        *)
(*     equator and the prime meridian (where one unit is about 11.12 m in  *)
(*     both directions);                                                   *)
(*   - distances are whole meters (the code's km value times 1000);        *)
(*   - the clock counts units of 24 hours, so cacheTTL (48 h) is 2;        *)
(*   - ratings are tenths of a star (45 = 4.5); NaN is a float NaN.        *)
(***************************************************************************)
EXTENDS Integers, Sequences, FiniteSets, TLC

VARIABLES
    items,      \* LocationCache.items: the slice of cacheItem
    now,        \* the wall clock read by time.Now()
    lastOp,     \* history: the last cache operation, its arguments and result
    lastSet,    \* history: the most recent Set and its arguments
    dedupIn,    \* deduplicateRestaurants: the argument
    dedupOut,   \* deduplicateRestaurants: the result, and the result of a
                \* second call on that result
    dedupPc,    \* "in", "once" (called), "twice" (called on its own result)
    apiProvider, \* RestaurantBot.apiProvider: "google", "osm" or "both"
    params,     \* SearchParams of the request: Categories, Keyword
    pc,         \* the request: "start", "google", "osm", "both", "done"
    gp,         \* the commercial path: its position and the locals of
                \* findNearbyRestaurantsGoogleMultipleWithStats
    tasks,      \* the fan-out goroutines that have not reported yet
    resultsChan, \* the fan-out's resultsChan
    osmRunning, \* both-mode: the community goroutine has not reported yet
    both,       \* the locals of findNearbyRestaurantsBothWithStats
    bothChan,   \* the both-mode resultsChan
    result,     \* what findNearbyRestaurantsWithStats returned
    ad,         \* one call of a commercial adapter: its kind, its position and
                \* the locals of its page loop
    requests,   \* the requests that call has sent to the provider, with the
                \* provider's answers
    req,        \* the last request a handler served: what it asked the cache,
                \* whether it ran the aggregator, what it answered
    call,       \* a pure function applied on its own: its name, its
                \* arguments, its results
    mu,         \* LocationCache.mu: the readers inside and whether a writer
                \* holds the lock
    threads,    \* the goroutines that use the cache: where each one is in
                \* Get, Set or cleanup
    photoFiles, \* the photo storage directory: what is stored under each
                \* file name
    photoCalls, \* history: the requests sent to the provider's photo API,
                \* counted by place_id
    photoReqs   \* the goroutines of the /api/photo handler: where each one is

cacheVars == <<items, now, lastOp, lastSet>>
dedupVars == <<dedupIn, dedupOut, dedupPc>>
searchVars == <<apiProvider, params, pc, gp, tasks, resultsChan, osmRunning,
                both, bothChan, result>>
adapterVars == <<ad, requests>>
handlerVars == <<req>>
callVars == <<call>>
lockVars == <<mu, threads>>
fetchVars == <<photoFiles, photoCalls, photoReqs>>
vars == <<items, now, lastOp, lastSet, dedupIn, dedupOut, dedupPc,
          apiProvider, params, pc, gp, tasks, resultsChan, osmRunning,
          both, bothChan, result, ad, requests, req, call, mu, threads,
          photoFiles, photoCalls, photoReqs>>

----------------------------------------------------------------------------
(* Bounds of the model *)

MaxLat == 2          \* latitudes 0..MaxLat (units of 0.0001 degree)
MaxLon == 0          \* longitudes 0..MaxLon
MaxItems == 2        \* cap on the length of LocationCache.items
MaxTime == 3         \* the clock stops at MaxTime
NumResultSets == 3   \* distinct search results a caller may store
MaxDedupLen == 3     \* longest list given to deduplicateRestaurants alone
NumCuisines == 1     \* entries of cuisineKeywordsForSearch the fan-out uses
MaxRequests == 5     \* requests an adapter call can send; the last one is sent after its deadline

(* Program constants *)

cacheTTL == 2              \* 48 * time.Hour, in units of 24 hours
cacheRadiusMeters == 20    \* 20 meter radius for cache matching
MetersPerUnit == 11        \* 6371 km * pi / 180 * 0.0001 degree = 11.12 m

Lats == 0..MaxLat
Lons == 0..MaxLon

----------------------------------------------------------------------------
(* Distance *)

ISqrt(n) == CHOOSE r \in 0..n : r * r <= n /\ (r + 1) * (r + 1) > n

\* calculateDistance: haversine distance; for the small offsets of the model
\* the great circle is the flat distance, here in whole meters
calculateDistance(lat1, lon1, lat2, lon2) ==
    ISqrt(((lat2 - lat1) * (lat2 - lat1) + (lon2 - lon1) * (lon2 - lon1))
          * MetersPerUnit * MetersPerUnit)

----------------------------------------------------------------------------
(* SearchStats and the results a caller stores *)

SearchStats(pages, queries, raw, filtered, osm, before, after, cached) ==
    [GooglePagesSearched |-> pages, GoogleSearchQueries |-> queries,
     GoogleResultsRaw |-> raw, GoogleResultsFiltered |-> filtered,
     OSMResultsTotal |-> osm, TotalBeforeDedup |-> before,
     TotalAfterDedup |-> after, CachedResult |-> cached]

ZeroStats == SearchStats(0, 0, 0, 0, 0, 0, 0, FALSE)

\* the k-th search result of the model: one place, found by k provider pages
StoredRestaurants(k) == <<k>>
StoredStats(k) == SearchStats(k, 1, 1, 1, 0, 1, 1, FALSE)

----------------------------------------------------------------------------
(* Strings: a string is the sequence of its characters *)

UpperLetters ==
    <<"A", "B", "C", "D", "E", "F", "G", "H", "I", "J", "K", "L", "M",
      "N", "O", "P", "Q", "R", "S", "T", "U", "V", "W", "X", "Y", "Z">>

LowerLetters ==
    <<"a", "b", "c", "d", "e", "f", "g", "h", "i", "j", "k", "l", "m",
      "n", "o", "p", "q", "r", "s", "t", "u", "v", "w", "x", "y", "z">>

ToLowerChar(c) ==
    IF \E k \in DOMAIN UpperLetters : UpperLetters[k] = c
    THEN LowerLetters[CHOOSE k \in DOMAIN UpperLetters : UpperLetters[k] = c]
    ELSE c

ToUpperChar(c) ==
    IF \E k \in DOMAIN LowerLetters : LowerLetters[k] = c
    THEN UpperLetters[CHOOSE k \in DOMAIN LowerLetters : LowerLetters[k] = c]
    ELSE c

\* strings.ToLower, strings.ToUpper
ToLower(s) == [i \in 1..Len(s) |-> ToLowerChar(s[i])]
ToUpper(s) == [i \in 1..Len(s) |-> ToUpperChar(s[i])]

\* strings.TrimSpace
RECURSIVE TrimLeft(_)
TrimLeft(s) == IF s # <<>> /\ Head(s) = " " THEN TrimLeft(Tail(s)) ELSE s

RECURSIVE TrimRight(_)
TrimRight(s) ==
    IF s # <<>> /\ s[Len(s)] = " " THEN TrimRight(SubSeq(s, 1, Len(s) - 1)) ELSE s

TrimSpace(s) == TrimRight(TrimLeft(s))

\* strings.HasPrefix, strings.TrimPrefix
HasPrefix(s, prefix) ==
    Len(s) >= Len(prefix) /\ SubSeq(s, 1, Len(prefix)) = prefix

TrimPrefix(s, prefix) ==
    IF HasPrefix(s, prefix) THEN SubSeq(s, Len(prefix) + 1, Len(s)) ELSE s

SourceGoogle == <<"g", "o", "o", "g", "l", "e">>
SourceOSM == <<"o", "s", "m">>

\* fmt.Sprintf("[%s] %s", strings.ToUpper(source), name)
MarkName(source, name) == <<"[">> \o ToUpper(source) \o <<"]", " ">> \o name

----------------------------------------------------------------------------
(* Restaurant *)

Restaurant(name, rating, reviewCount, lat, lon, distance) ==
    [Name |-> name, Rating |-> rating, ReviewCount |-> reviewCount,
     Latitude |-> lat, Longitude |-> lon, Distance |-> distance]

----------------------------------------------------------------------------
(* deduplicateRestaurants *)

\* proximityThreshold = 0.0005 degree, in units of 0.0001 degree
proximityThreshold == 5

\* math.Round(x / proximityThreshold) * proximityThreshold as a float: sign
\* and magnitude, so that rounding a small negative x gives negative zero
RoundToThreshold(x) ==
    [neg |-> x < 0,
     mag |-> (((IF x < 0 THEN -x ELSE x) * 2 + proximityThreshold)
                \div (2 * proximityThreshold)) * proximityThreshold]

\* fmt.Sprintf("%.6f", f): the sign is printed, also for negative zero
FormatFloat6(f) == <<IF f.neg THEN "-" ELSE "", f.mag>>

\* the name part of the key
NormalizedName(name) ==
    TrimPrefix(TrimPrefix(ToLower(TrimSpace(name)),
                          <<"[">> \o SourceGoogle \o <<"]", " ">>),
               <<"[">> \o SourceOSM \o <<"]", " ">>)

\* key := fmt.Sprintf("%s_%.6f_%.6f", normalizedName, roundedLat, roundedLon)
DedupKey(r) ==
    <<NormalizedName(r.Name), FormatFloat6(RoundToThreshold(r.Latitude)),
      FormatFloat6(RoundToThreshold(r.Longitude))>>

\* mutant of DedupLoop: a duplicate clears the seen mark of its key
RECURSIVE DedupLoopToggle(_, _, _)
DedupLoopToggle(restaurants, seen, unique) ==
    IF restaurants = <<>> THEN unique
    ELSE LET r == Head(restaurants)
             key == DedupKey(r)
         IN  IF key \notin seen
             THEN DedupLoopToggle(Tail(restaurants), seen \cup {key},
                                  Append(unique, r))
             ELSE DedupLoopToggle(Tail(restaurants), seen \ {key}, unique)

\* the loop over restaurants, with the seen map and the unique slice
RECURSIVE DedupLoop(_, _, _)
DedupLoop(restaurants, seen, unique) ==
    IF restaurants = <<>> THEN unique
    ELSE LET r == Head(restaurants)
             key == DedupKey(r)
         IN  IF key \notin seen
             THEN DedupLoop(Tail(restaurants), seen \cup {key}, Append(unique, r))
             ELSE DedupLoop(Tail(restaurants), seen, unique)

deduplicateRestaurants(restaurants) ==
    IF Len(restaurants) = 0 THEN restaurants
    ELSE DedupLoop(restaurants, {}, <<>>)

----------------------------------------------------------------------------
(* calculateWeightedScore and sortRestaurantsByRating *)

\* a rating that is a float NaN (strconv.ParseFloat accepts the text "NaN")
NaN == -1000

\* m = 15.0: minimum reviews for full confidence
ConfidenceReviews == 15
\* C = 3.5: the prior rating, in tenths
PriorRating == 35

\* mutant of calculateWeightedScore: the prior has no weight
calculateWeightedScoreNoPrior(rating, reviewCount) ==
    IF rating = NaN
    THEN [nan |-> TRUE, num |-> 0, den |-> 1]
    ELSE [nan |-> FALSE, num |-> reviewCount * rating,
          den |-> reviewCount + ConfidenceReviews]

\* (v*R + m*C) / (v + m), kept as a fraction; NaN when the rating is NaN
calculateWeightedScore(rating, reviewCount) ==
    IF rating = NaN
    THEN [nan |-> TRUE, num |-> 0, den |-> 1]
    ELSE [nan |-> FALSE,
          num |-> reviewCount * rating + ConfidenceReviews * PriorRating,
          den |-> reviewCount + ConfidenceReviews]

\* the float comparisons < and == : both are false when an operand is NaN
FloatLess(a, b) == ~a.nan /\ ~b.nan /\ a.num * b.den < b.num * a.den
FloatEq(a, b) == ~a.nan /\ ~b.nan /\ a.num * b.den = b.num * a.den

Swap(rs, i, j) == [rs EXCEPT ![i] = rs[j], ![j] = rs[i]]

\* the body of the inner loop: compare the scores, then the distances
SortCompare(rs, i, j) ==
    LET scoreI == calculateWeightedScore(rs[i].Rating, rs[i].ReviewCount)
        scoreJ == calculateWeightedScore(rs[j].Rating, rs[j].ReviewCount)
    IN  IF FloatLess(scoreI, scoreJ) THEN Swap(rs, i, j)
        ELSE IF FloatEq(scoreI, scoreJ) /\ rs[i].Distance > rs[j].Distance
             THEN Swap(rs, i, j)
             ELSE rs

\* for j := i + 1; j < len(restaurants); j++
RECURSIVE SortInner(_, _, _)
SortInner(rs, i, j) ==
    IF j > Len(rs) THEN rs ELSE SortInner(SortCompare(rs, i, j), i, j + 1)

\* for i := 0; i < len(restaurants)-1; i++
RECURSIVE SortOuter(_, _)
SortOuter(rs, i) ==
    IF i > Len(rs) - 1 THEN rs ELSE SortOuter(SortInner(rs, i, i + 1), i + 1)

sortRestaurantsByRating(restaurants) == SortOuter(restaurants, 1)

----------------------------------------------------------------------------
(* Search results and the calls of the commercial fan-out *)

\* (*SearchResult, error) as one record; errors lists the failed sources the
\* error message names
OkResult(restaurants, stats) ==
    [err |-> FALSE, errors |-> <<>>, Restaurants |-> restaurants, Stats |-> stats]

ErrResult(errors) ==
    [err |-> TRUE, errors |-> errors, Restaurants |-> <<>>, Stats |-> ZeroStats]

NoResult == [err |-> FALSE, errors |-> <<>>, Restaurants |-> <<>>, Stats |-> ZeroStats]

CategoryRestaurant == "restaurant"

allFoodCategories ==
    <<"restaurant", "cafe", "bar", "takeaway", "bakery", "delivery">>

cuisineKeywordsForSearch ==
    <<"indian", "chinese", "thai", "japanese", "korean", "vietnamese",
      "italian", "mexican", "french", "greek", "mediterranean", "american",
      "seafood", "steak", "barbecue", "pizza", "burger", "sushi", "ramen",
      "vegetarian", "vegan", "breakfast", "brunch">>

\* the part of cuisineKeywordsForSearch the fan-out of the model goes through
CuisinesSearched == SubSeq(cuisineKeywordsForSearch, 1, NumCuisines)

\* cuisineKeywords[strings.ToLower(keyword)], for the keywords of the model
ResolveKeyword(keyword) ==
    CASE keyword = "healthy" -> "healthy food"
      [] OTHER -> keyword

Range(f) == {f[i] : i \in DOMAIN f}

\* the source tag of a fan-out call: string(c), "cuisine:" + kw, "text:" + q
Source(kind, arg) == [kind |-> kind, arg |-> arg]

\* strings.HasPrefix(res.source, "cuisine:") || HasPrefix(res.source, "text:")
\* mutant of IsSupplementary: no call is taken for a supplementary one
IsSupplementaryNever(source) == FALSE

IsSupplementary(source) == source.kind \in {"cuisine", "text"}

includesRestaurantSearch(categories) == CategoryRestaurant \in Range(categories)

\* mutant of CuisineSearches: the cuisine calls are made with a keyword too
CuisineSearchesAlways(categories, keyword) ==
    IF includesRestaurantSearch(categories) THEN CuisinesSearched ELSE <<>>

\* cuisineSearches
CuisineSearches(categories, keyword) ==
    IF includesRestaurantSearch(categories) /\ keyword = ""
    THEN CuisinesSearched ELSE <<>>

\* textSearchQueries
TextSearchQueries(categories, keyword) ==
    IF includesRestaurantSearch(categories) /\ keyword = ""
    THEN <<"restaurant", "food">>
    ELSE IF includesRestaurantSearch(categories) /\ keyword # ""
         THEN <<keyword \o " restaurant", keyword \o " food">>
         ELSE <<>>

\* totalSearches
TotalSearches(categories, keyword) ==
    Len(categories) + Len(CuisineSearches(categories, keyword))
        + Len(TextSearchQueries(categories, keyword))

\* the goroutines the fan-out starts, in the order of the go statements, each
\* with its source tag
FanOutCalls(categories, keyword) ==
    [i \in 1..Len(categories) |-> Source("category", categories[i])]
    \o [i \in 1..Len(CuisineSearches(categories, keyword)) |->
           Source("cuisine", CuisineSearches(categories, keyword)[i])]
    \o [i \in 1..Len(TextSearchQueries(categories, keyword)) |->
           Source("text", TextSearchQueries(categories, keyword)[i])]

\* categoriesToSearch of findNearbyRestaurantsGoogleWithStats
CategoriesToSearch(p) ==
    IF Len(p.Categories) = 0 THEN allFoodCategories ELSE p.Categories

\* "If only one category and no keyword, use simple search"
UsesSimpleSearch(p) ==
    Len(CategoriesToSearch(p)) = 1 /\ ResolveKeyword(p.Keyword) = ""

\* the commercial path before it runs
IdleGooglePath ==
    [pc |-> "idle", total |-> 0, i |-> 0, allRestaurants |-> <<>>,
     errors |-> <<>>, stats |-> ZeroStats, collected |-> <<>>, failed |-> {},
     ret |-> NoResult]

\* the both-mode aggregator before it runs
IdleBoth ==
    [i |-> 0, allRestaurants |-> <<>>, errors |-> <<>>, stats |-> ZeroStats,
     collected |-> <<>>]

----------------------------------------------------------------------------
(* LocationCache *)

cacheItem(lat, lon, restaurants, stats, expiresAt) ==
    [lat |-> lat, lon |-> lon, restaurants |-> restaurants, stats |-> stats,
     expiresAt |-> expiresAt]

\* the radius test shared by Get and Set
WithinRadius(lat, lon, item) ==
    calculateDistance(lat, lon, item.lat, item.lon) <= cacheRadiusMeters

\* Get's expiry test: now.After(item.expiresAt)
GetSkips(t, item) == t > item.expiresAt

\* mutant of CleanupKeeps: the sweep empties the cache
CleanupKeepsNone(t, item) == FALSE

\* mutant of CleanupKeeps: the sweep keeps what Get still serves
CleanupKeepsServed(t, item) == t <= item.expiresAt

\* mutant of CleanupKeeps: the sweep keeps every entry
CleanupKeepsAll(t, item) == TRUE

\* cleanup's keep test: now.Before(item.expiresAt)
CleanupKeeps(t, item) == t < item.expiresAt

\* index of the first element of its that Get serves at (lat, lon), 0 if none
GetIndex(its, t, lat, lon) ==
    LET hits == {i \in 1..Len(its) :
                    ~GetSkips(t, its[i]) /\ WithinRadius(lat, lon, its[i])}
    IN  IF hits = {} THEN 0 ELSE CHOOSE i \in hits : \A j \in hits : i <= j

\* mutant of GetResult: the stored stats are returned as they are
GetResultStoredStats(its, t, lat, lon) ==
    LET i == GetIndex(its, t, lat, lon)
    IN  IF i = 0
        THEN [restaurants |-> <<>>, stats |-> ZeroStats, found |-> FALSE]
        ELSE [restaurants |-> its[i].restaurants, stats |-> its[i].stats,
              found |-> TRUE]

\* LocationCache.Get: <<restaurants, stats, found>>
GetResult(its, t, lat, lon) ==
    LET i == GetIndex(its, t, lat, lon)
    IN  IF i = 0
        THEN [restaurants |-> <<>>, stats |-> ZeroStats, found |-> FALSE]
        ELSE [restaurants |-> its[i].restaurants,
              stats |-> [its[i].stats EXCEPT !.CachedResult = TRUE],
              found |-> TRUE]

\* index of the first element of its that Set overwrites, 0 if none
SetIndex(its, lat, lon) ==
    LET hits == {i \in 1..Len(its) : WithinRadius(lat, lon, its[i])}
    IN  IF hits = {} THEN 0 ELSE CHOOSE i \in hits : \A j \in hits : i <= j

\* mutant of SetItems: a new entry is always appended
SetItemsAppend(its, t, lat, lon, restaurants, stats) ==
    Append(its, cacheItem(lat, lon, restaurants, stats, t + cacheTTL))

\* mutant of SetItems: only an unexpired entry is overwritten
SetItemsSkipExpired(its, t, lat, lon, restaurants, stats) ==
    LET i == GetIndex(its, t, lat, lon)
        new == cacheItem(lat, lon, restaurants, stats, t + cacheTTL)
    IN  IF i # 0 THEN [its EXCEPT ![i] = new] ELSE Append(its, new)

\* LocationCache.Set: the new items
SetItems(its, t, lat, lon, restaurants, stats) ==
    LET i == SetIndex(its, lat, lon)
        new == cacheItem(lat, lon, restaurants, stats, t + cacheTTL)
    IN  IF i # 0 THEN [its EXCEPT ![i] = new] ELSE Append(its, new)

\* one pass of the cleanup loop: the items that are kept
RECURSIVE CleanupItems(_, _)
CleanupItems(its, t) ==
    IF its = <<>> THEN <<>>
    ELSE IF CleanupKeeps(t, Head(its))
         THEN <<Head(its)>> \o CleanupItems(Tail(its), t)
         ELSE CleanupItems(Tail(its), t)

----------------------------------------------------------------------------
(* History of cache operations *)

\* lastOp: the last operation; prevName is the operation right before it,
\* removed the number of entries a sweep has dropped
OpRecord(name, lat, lon, restaurants, stats, found) ==
    [name |-> name, lat |-> lat, lon |-> lon, restaurants |-> restaurants,
     stats |-> stats, found |-> found, time |-> now, prevName |-> lastOp.name,
     removed |-> IF name = "Cleanup"
                 THEN Len(items) - Len(CleanupItems(items, now)) ELSE 0]

\* lastSet: the most recent Set; chain says that the operation right before
\* it was a Set too, at a point within the matching radius of this one;
\* overwrote says whether the Set replaced an entry, and whether the TTL of
\* that entry had elapsed
SetRecord(lat, lon, restaurants, stats) ==
    [valid |-> TRUE, lat |-> lat, lon |-> lon, restaurants |-> restaurants,
     stats |-> stats, time |-> now,
     overwrote |-> IF SetIndex(items, lat, lon) = 0 THEN "none"
                   ELSE IF now >= items[SetIndex(items, lat, lon)].expiresAt
                        THEN "expired" ELSE "unexpired",
     chain |-> /\ lastOp.name = "Set"
               /\ calculateDistance(lastOp.lat, lastOp.lon, lat, lon)
                      <= cacheRadiusMeters]

----------------------------------------------------------------------------
(* Actions of the cache *)

CacheInit ==
    /\ items = <<>>
    /\ now = 0
    /\ lastOp = [name |-> "none", lat |-> 0, lon |-> 0, restaurants |-> <<>>,
                 stats |-> ZeroStats, found |-> FALSE, time |-> 0,
                 prevName |-> "none", removed |-> 0]
    /\ lastSet = [valid |-> FALSE, lat |-> 0, lon |-> 0, restaurants |-> <<>>,
                  stats |-> ZeroStats, time |-> 0, overwrote |-> "none",
                  chain |-> FALSE]

\* the parts of the model a specification does not use stay as they start
DedupIdle == dedupIn = <<>> /\ dedupOut = <<>> /\ dedupPc = "idle"

\* no adapter call is followed page by page
AdapterIdle ==
    /\ ad = [kind |-> "none", pc |-> "idle", page |-> 0, nextPageToken |-> 0,
             allRestaurants |-> <<>>, stats |-> ZeroStats, ret |-> NoResult]
    /\ requests = <<>>

\* the goroutines of the lock model
Handlers == {"handler1", "handler2"}
Threads == Handlers \cup {"cleanup"}

\* no goroutine is inside the cache
LockIdle ==
    /\ mu = [readerCount |-> 0, writer |-> FALSE]
    /\ threads = [p \in Threads |-> [pc |-> "idle", op |-> "none", lat |-> 0, saw |-> FALSE]]

\* the goroutines net/http runs the /api/photo handler in
PhotoGoroutines == {"photo1", "photo2"}

\* the place_id parameter of the requests; <<>> is the missing parameter
PlaceSlash == <<"a", "/", "b">>
PlaceUnder == <<"a", "_", "b">>
PhotoPlaceIDs == {PlaceSlash, PlaceUnder}

\* safeePlaceID: "/" and "\" are replaced by "_"
SafePlaceID(placeID) ==
    [i \in 1..Len(placeID) |->
        IF placeID[i] \in {"/", "\\"} THEN "_" ELSE placeID[i]]

\* filename := safeePlaceID + ".jpg"
Filename(placeID) == SafePlaceID(placeID) \o <<".", "j", "p", "g">>

PhotoFilenames == {Filename(placeID) : placeID \in PhotoPlaceIDs}

\* the storage directory is empty and no /api/photo request is being served
FetchIdle ==
    /\ photoFiles = [f \in PhotoFilenames |-> "none"]
    /\ photoCalls = [placeID \in PhotoPlaceIDs |-> 0]
    /\ photoReqs = [p \in PhotoGoroutines |->
                      [pc |-> "idle", placeID |-> <<>>, photoRef |-> "",
                       fetched |-> "none", source |-> "none"]]

\* no pure function is applied on its own
CallIdle == call = [fn |-> "none", pc |-> "idle", in |-> <<>>, out |-> <<>>]

\* no handler has served a request
HandlerIdle ==
    req = [handler |-> "none", categories |-> <<>>, keyword |-> "",
           found |-> FALSE, searched |-> FALSE, status |-> "none",
           served |-> <<>>, messages |-> 0, seq |-> 0]

SearchIdle ==
    /\ apiProvider = "google"
    /\ params = [Categories |-> <<>>, Keyword |-> ""]
    /\ pc = "idle"
    /\ gp = IdleGooglePath
    /\ tasks = {}
    /\ resultsChan = <<>>
    /\ osmRunning = FALSE
    /\ both = IdleBoth
    /\ bothChan = <<>>
    /\ result = NoResult

Set(lat, lon, restaurants, stats) ==
    /\ SetIndex(items, lat, lon) = 0 => Len(items) < MaxItems
    /\ items' = SetItems(items, now, lat, lon, restaurants, stats)
    /\ lastOp' = OpRecord("Set", lat, lon, restaurants, stats, FALSE)
    /\ lastSet' = SetRecord(lat, lon, restaurants, stats)
    /\ UNCHANGED now

\* mutant of Get: the hit is flagged in the stored entry as well
GetFlagsEntry(lat, lon) ==
    LET r == GetResult(items, now, lat, lon)
        i == GetIndex(items, now, lat, lon)
    IN  /\ lastOp' = OpRecord("Get", lat, lon, r.restaurants, r.stats, r.found)
        /\ items' = IF i = 0 THEN items
                    ELSE [items EXCEPT ![i].stats.CachedResult = TRUE]
        /\ UNCHANGED <<now, lastSet>>

Get(lat, lon) ==
    LET r == GetResult(items, now, lat, lon)
    IN  /\ lastOp' = OpRecord("Get", lat, lon, r.restaurants, r.stats, r.found)
        /\ UNCHANGED <<items, now, lastSet>>

Cleanup ==
    /\ items' = CleanupItems(items, now)
    /\ lastOp' = OpRecord("Cleanup", 0, 0, <<>>, ZeroStats, FALSE)
    /\ UNCHANGED <<now, lastSet>>

Tick ==
    /\ now < MaxTime
    /\ now' = now + 1
    /\ UNCHANGED <<items, lastOp, lastSet>>

CacheNext ==
    \/ \E lat \in Lats, lon \in Lons, k \in 1..NumResultSets :
          Set(lat, lon, StoredRestaurants(k), StoredStats(k)) /\ UNCHANGED <<dedupVars, searchVars, adapterVars, handlerVars, callVars, lockVars, fetchVars>>
    \/ \E lat \in Lats, lon \in Lons : Get(lat, lon) /\ UNCHANGED <<dedupVars, searchVars, adapterVars, handlerVars, callVars, lockVars, fetchVars>>
    \/ Cleanup /\ UNCHANGED <<dedupVars, searchVars, adapterVars, handlerVars, callVars, lockVars, fetchVars>>
    \/ Tick /\ UNCHANGED <<dedupVars, searchVars, adapterVars, handlerVars, callVars, lockVars, fetchVars>>

\* only the cache runs
Init == CacheInit /\ DedupIdle /\ SearchIdle /\ AdapterIdle /\ HandlerIdle /\ LockIdle /\ FetchIdle /\ CallIdle

Spec == Init /\ [][CacheNext]_vars

----------------------------------------------------------------------------
(* Claims about the cache *)

Near(lat1, lon1, lat2, lon2) ==
    calculateDistance(lat1, lon1, lat2, lon2) <= cacheRadiusMeters

\* the last operation is a Get at the point of the most recent Set
GetAtLastSet ==
    /\ lastOp.name = "Get"
    /\ lastSet.valid
    /\ lastOp.lat = lastSet.lat
    /\ lastOp.lon = lastSet.lon

\* the item the most recent Set wrote
LastSetItem ==
    cacheItem(lastSet.lat, lastSet.lon, lastSet.restaurants, lastSet.stats,
              lastSet.time + cacheTTL)

\* C1: a Get right after Set(p, R, S), at p and before the TTL has elapsed,
\* reports found and returns R and S with CachedResult set
C1_RoundTrip ==
    (GetAtLastSet /\ lastOp.prevName = "Set"
        /\ lastOp.time < lastSet.time + cacheTTL)
    => /\ lastOp.found
       /\ lastOp.restaurants = lastSet.restaurants
       /\ lastOp.stats = [lastSet.stats EXCEPT !.CachedResult = TRUE]

\* the round trip happened in a cache that holds another entry within the
\* radius of p, with other records
C1_Witness ==
    /\ GetAtLastSet /\ lastOp.prevName = "Set"
    /\ lastOp.time < lastSet.time + cacheTTL
    /\ lastOp.found
    /\ \E i \in 1..Len(items) :
          /\ WithinRadius(lastOp.lat, lastOp.lon, items[i])
          /\ items[i].restaurants # lastSet.restaurants
          /\ ~GetSkips(lastOp.time, items[i])

\* a step that is a Set
IsSetStep == lastOp'.name = "Set" /\ <<lastOp, lastSet>>' # <<lastOp, lastSet>>

\* C2: a Set that finds an entry (expired or not) within the radius overwrites
\* one such entry in place and leaves the others alone; a Set that finds none
\* appends exactly one entry
C2_SetFrame ==
    [][IsSetStep =>
        LET lat == lastOp'.lat
            lon == lastOp'.lon
            new == cacheItem(lat, lon, lastOp'.restaurants, lastOp'.stats,
                             now + cacheTTL)
            matches == {i \in 1..Len(items) : Near(lat, lon, items[i].lat, items[i].lon)}
        IN  IF matches # {}
            THEN /\ Len(items') = Len(items)
                 /\ \E i \in matches :
                       /\ items'[i] = new
                       /\ \A j \in 1..Len(items) : j # i => items'[j] = items[j]
            ELSE /\ Len(items') = Len(items) + 1
                 /\ items'[Len(items')] = new
                 /\ \A j \in 1..Len(items) : items'[j] = items[j]]_vars

\* a Set has overwritten an expired entry in a cache of two entries
C2_Witness ==
    /\ lastOp.name = "Set"
    /\ lastSet.chain
    /\ Len(items) = 2
    /\ lastOp.time > cacheTTL
    /\ \E i \in 1..Len(items) : items[i] # LastSetItem

\* the last two Sets were at points within the radius of each other, and the
\* last operation is a Get within the radius of the second, before its expiry
GetAfterMerge ==
    /\ lastOp.name = "Get"
    /\ lastSet.valid
    /\ lastSet.chain
    /\ Near(lastOp.lat, lastOp.lon, lastSet.lat, lastSet.lon)
    /\ lastOp.time < lastSet.time + cacheTTL

\* C3 as stated: after Set(p, R1) and Set(p', R2) with p' within the radius
\* of p, a Get anywhere within the radius of p' returns R2
C3_Original ==
    GetAfterMerge => lastOp.found /\ lastOp.restaurants = lastSet.restaurants

\* C3 amended: such a Get is a hit; it returns R2, or the records of an
\* unexpired entry anchored within the radius of the Get point but outside
\* the radius of p'; at p' itself it returns R2
C3_Merge ==
    GetAfterMerge =>
        /\ lastOp.found
        /\ \/ lastOp.restaurants = lastSet.restaurants
           \/ \E i \in 1..Len(items) :
                 /\ items[i].restaurants = lastOp.restaurants
                 /\ ~GetSkips(lastOp.time, items[i])
                 /\ WithinRadius(lastOp.lat, lastOp.lon, items[i])
                 /\ ~WithinRadius(lastSet.lat, lastSet.lon, items[i])
        /\ (lastOp.lat = lastSet.lat /\ lastOp.lon = lastSet.lon)
              => lastOp.restaurants = lastSet.restaurants

\* the Get was at another point than p' and returned R2, and the second Set
\* came with other records than the entry it replaced
C3_Witness ==
    /\ GetAfterMerge
    /\ <<lastOp.lat, lastOp.lon>> # <<lastSet.lat, lastSet.lon>>
    /\ lastOp.restaurants = lastSet.restaurants
    /\ Len(items) = 2

\* C4 as stated: once the TTL has elapsed after Set(p), with no Set since,
\* Get(p) reports not-found
C4_Original ==
    (GetAtLastSet /\ lastOp.time >= lastSet.time + cacheTTL) => ~lastOp.found

----------------------------------------------------------------------------
(* The provider adapters, as far as the aggregation sees them *)

\* the point of the request (SearchParams.Lat, SearchParams.Lon)
QueryLat == 0
QueryLon == 0

\* a record as an adapter builds it: Distance is computed from the query point
Place(name, rating, reviewCount, lat, lon) ==
    Restaurant(name, rating, reviewCount, lat, lon,
               calculateDistance(QueryLat, QueryLon, lat, lon))

\* the places the commercial provider knows
GoogleJo == Place(<<"J", "o">>, 45, 100, 1, 1)
GoogleKi == Place(<<"K", "i">>, 50, 1, 3, 1)
GoogleLi == Place(<<"L", "i">>, 45, 100, 6, 1)

\* the places the community provider knows: no review count; a rating only
\* if the rating tag parses
NoRatingTag == ""

\* strconv.ParseFloat on the texts of the model: the value in tenths, or an
\* error
ParseFloat(text) ==
    CASE text = "4.5" -> [ok |-> TRUE, value |-> 45]
      [] text = "9.5" -> [ok |-> TRUE, value |-> 95]
      [] text = "-1" -> [ok |-> TRUE, value |-> -10]
      [] text = "NaN" -> [ok |-> TRUE, value |-> NaN]
      [] OTHER -> [ok |-> FALSE, value |-> 0]

\* the rating of a community record: 0.0 unless the rating tag parses
OSMRating(ratingTag) ==
    IF ratingTag # NoRatingTag /\ ParseFloat(ratingTag).ok
    THEN ParseFloat(ratingTag).value
    ELSE 0

OSMJo == Place(<<"j", "o">>, OSMRating(NoRatingTag), 0, 2, 1)
OSMJoSpace == Place(<<" ", "J", "o">>, OSMRating("good"), 0, 1, 1)
OSMJoSouth == Place(<<"J", "o">>, OSMRating(NoRatingTag), 0, -1, 1)
OSMNa == Place(<<"N", "a">>, OSMRating("NaN"), 0, 3, 3)

\* what a provider call comes back with: an error, or places in the
\* provider's order
Answer(err, places) == [err |-> err, places |-> places]

CategoryAnswers ==
    {Answer(TRUE, <<>>), Answer(FALSE, <<>>), Answer(FALSE, <<GoogleJo>>),
     Answer(FALSE, <<GoogleKi, GoogleLi>>)}

SupplementaryAnswers ==
    {Answer(TRUE, <<>>), Answer(FALSE, <<GoogleKi, GoogleJo>>)}

OSMAnswers ==
    {Answer(TRUE, <<>>), Answer(FALSE, <<>>), Answer(FALSE, <<OSMJo>>),
     Answer(FALSE, <<OSMJoSpace>>), Answer(FALSE, <<OSMJoSouth>>),
     Answer(FALSE, <<OSMJo, OSMNa>>)}

\* findNearbyRestaurantsGoogleByTypeWithStats, one page fetched
ByTypeResult(ans) ==
    IF ans.err THEN ErrResult(<<>>)
    ELSE OkResult(sortRestaurantsByRating(ans.places),
                  SearchStats(1, 0, Len(ans.places), Len(ans.places), 0, 0, 0, FALSE))

\* findNearbyRestaurantsGoogleTextSearchWithStats, one page fetched: the
\* records stay in the provider's order
TextSearchResult(ans) ==
    IF ans.err THEN ErrResult(<<>>)
    ELSE OkResult(ans.places,
                  SearchStats(1, 0, Len(ans.places), Len(ans.places), 0, 0, 0, FALSE))

\* findNearbyRestaurantsOSMWithStats
OSMResult(ans) ==
    IF ans.err THEN ErrResult(<<>>)
    ELSE OkResult(sortRestaurantsByRating(ans.places),
                  SearchStats(0, 0, 0, 0, Len(ans.places), Len(ans.places),
                              Len(ans.places), FALSE))

\* the adapter call a fan-out goroutine makes
CallResult(source, ans) ==
    IF source.kind = "text" THEN TextSearchResult(ans) ELSE ByTypeResult(ans)

CallAnswers(source) ==
    IF IsSupplementary(source) THEN SupplementaryAnswers ELSE CategoryAnswers

----------------------------------------------------------------------------
(* The commercial fan-out: findNearbyRestaurantsGoogleMultipleWithStats *)

\* mutant of CollectMore: the collector stops at the first report
CollectFirstOnly(i, total) == i < 1

\* the loop condition of both collectors: for i := 0; i < total; i++
CollectMore(i, total) == i < total

\* the commercial path as findNearbyRestaurantsGoogleWithStats starts it
StartedGooglePath(p) ==
    LET categories == CategoriesToSearch(p)
        keyword == ResolveKeyword(p.Keyword)
    IN  IF UsesSimpleSearch(p)
        THEN [IdleGooglePath EXCEPT !.pc = "simple"]
        ELSE [IdleGooglePath EXCEPT
                 !.pc = "collect",
                 !.total = TotalSearches(categories, keyword),
                 !.stats = [ZeroStats EXCEPT
                    !.GoogleSearchQueries = TotalSearches(categories, keyword)]]

StartedTasks(p) ==
    IF UsesSimpleSearch(p) THEN {}
    ELSE DOMAIN FanOutCalls(CategoriesToSearch(p), ResolveKeyword(p.Keyword))

TaskSource(t) == FanOutCalls(CategoriesToSearch(params), ResolveKeyword(params.Keyword))[t]

\* the body of the collecting loop for one received report
FanOutCollect(g, msg) ==
    LET res == msg.res
        g1 == [g EXCEPT !.i = @ + 1, !.collected = Append(@, msg.task),
                        !.failed = IF res.err THEN @ \cup {msg.task} ELSE @]
    IN  IF res.err
        THEN IF IsSupplementary(msg.source) THEN g1
             ELSE [g1 EXCEPT !.errors = Append(@, msg.source)]
        ELSE [g1 EXCEPT
                 !.stats = [@ EXCEPT
                    !.GooglePagesSearched = @ + res.Stats.GooglePagesSearched,
                    !.GoogleResultsRaw = @ + res.Stats.GoogleResultsRaw,
                    !.GoogleResultsFiltered = @ + res.Stats.GoogleResultsFiltered],
                 !.allRestaurants = @ \o res.Restaurants]

\* mutant of FanOutReturn: the error names the first failure only
FanOutReturnFirstError(g) ==
    LET deduplicated == deduplicateRestaurants(g.allRestaurants)
    IN  IF Len(g.allRestaurants) = 0 /\ Len(g.errors) > 0
        THEN ErrResult(<<Head(g.errors)>>)
        ELSE OkResult(sortRestaurantsByRating(deduplicated),
                      [g.stats EXCEPT !.TotalBeforeDedup = Len(g.allRestaurants),
                                      !.TotalAfterDedup = Len(deduplicated)])

\* what the fan-out returns once the loop is over
FanOutReturn(g) ==
    LET stats == [g.stats EXCEPT !.TotalBeforeDedup = Len(g.allRestaurants)]
        deduplicated == deduplicateRestaurants(g.allRestaurants)
    IN  IF Len(g.allRestaurants) = 0 /\ Len(g.errors) > 0
        THEN ErrResult(g.errors)
        ELSE OkResult(sortRestaurantsByRating(deduplicated),
                      [stats EXCEPT !.TotalAfterDedup = Len(deduplicated)])

----------------------------------------------------------------------------
(* The both-mode aggregator: findNearbyRestaurantsBothWithStats *)

\* the two goroutines, and the capacity of the channel
BothSearches == 2

\* the names of a result marked with its source
MarkAll(source, restaurants) ==
    [j \in 1..Len(restaurants) |->
        [restaurants[j] EXCEPT !.Name = MarkName(source, @)]]

\* the body of the collecting loop for one received report
BothCollect(b, msg) ==
    LET res == msg.res
        b1 == [b EXCEPT !.i = @ + 1, !.collected = Append(@, msg)]
    IN  IF res.err
        THEN [b1 EXCEPT !.errors = Append(@, msg.source)]
        ELSE [b1 EXCEPT
                 !.stats = IF msg.source = SourceGoogle
                           THEN [@ EXCEPT
                               !.GooglePagesSearched = res.Stats.GooglePagesSearched,
                               !.GoogleSearchQueries = res.Stats.GoogleSearchQueries,
                               !.GoogleResultsRaw = res.Stats.GoogleResultsRaw,
                               !.GoogleResultsFiltered = res.Stats.GoogleResultsFiltered]
                           ELSE [@ EXCEPT
                               !.OSMResultsTotal = res.Stats.OSMResultsTotal],
                 !.allRestaurants = @ \o MarkAll(msg.source, res.Restaurants)]

\* what the aggregator returns once the loop is over
BothReturn(b) ==
    LET stats == [b.stats EXCEPT !.TotalBeforeDedup = Len(b.allRestaurants)]
        deduplicated == deduplicateRestaurants(b.allRestaurants)
    IN  IF Len(b.allRestaurants) = 0 /\ Len(b.errors) > 0
        THEN ErrResult(b.errors)
        ELSE OkResult(sortRestaurantsByRating(deduplicated),
                      [stats EXCEPT !.TotalAfterDedup = Len(deduplicated)])

----------------------------------------------------------------------------
(* A search request: findNearbyRestaurantsWithStats *)

CategoryChoices == {<<"restaurant">>, <<"cafe", "bar">>, <<"restaurant", "cafe">>}
KeywordChoices == {"", "vegan"}

SearchInit ==
    /\ apiProvider \in {"google", "osm", "both"}
    /\ params \in {[Categories |-> c, Keyword |-> k] :
                      c \in CategoryChoices, k \in KeywordChoices}
    /\ apiProvider = "both" => Len(params.Categories) = 1
    /\ pc = "start"
    /\ gp = IdleGooglePath
    /\ tasks = {}
    /\ resultsChan = <<>>
    /\ osmRunning = FALSE
    /\ both = IdleBoth
    /\ bothChan = <<>>
    /\ result = NoResult

\* the switch on rb.apiProvider; in both-mode the two goroutines start
Start ==
    /\ pc = "start"
    /\ pc' = apiProvider
    /\ IF apiProvider = "osm"
       THEN UNCHANGED <<gp, tasks>>
       ELSE gp' = StartedGooglePath(params) /\ tasks' = StartedTasks(params)
    /\ osmRunning' = (apiProvider = "both")
    /\ UNCHANGED <<apiProvider, params, resultsChan, both, bothChan, result>>
    /\ UNCHANGED <<cacheVars, dedupVars, adapterVars, handlerVars, callVars, lockVars, fetchVars>>

\* the commercial path returns ret: to the caller, or into the both-mode
\* channel
GoogleReturns(ret) ==
    /\ gp' = [gp EXCEPT !.pc = "returned", !.ret = ret]
    /\ IF pc = "google"
       THEN result' = ret /\ pc' = "done" /\ UNCHANGED bothChan
       ELSE /\ Len(bothChan) < BothSearches
            /\ bothChan' = Append(bothChan, [source |-> SourceGoogle, res |-> ret])
            /\ UNCHANGED <<result, pc>>

\* the simple search: one call of findNearbyRestaurantsGoogleByTypeWithStats
GoogleSimple ==
    /\ gp.pc = "simple"
    /\ \E ans \in CategoryAnswers : GoogleReturns(ByTypeResult(ans))
    /\ UNCHANGED <<apiProvider, params, tasks, resultsChan, osmRunning, both>>
    /\ UNCHANGED <<cacheVars, dedupVars, adapterVars, handlerVars, callVars, lockVars, fetchVars>>

\* mutant of ChanCap: the channel holds one report
ChanCapOne(totalSearches) == 1

\* resultsChan := make(chan result, totalSearches)
ChanCap(totalSearches) == totalSearches

\* a fan-out goroutine: its adapter call returns and it sends its report
TaskFinish(t) ==
    /\ gp.pc = "collect"
    /\ t \in tasks
    /\ Len(resultsChan) < ChanCap(gp.total)
    /\ \E ans \in CallAnswers(TaskSource(t)) :
          resultsChan' = Append(resultsChan,
              [task |-> t, source |-> TaskSource(t),
               res |-> CallResult(TaskSource(t), ans)])
    /\ tasks' = tasks \ {t}
    /\ UNCHANGED <<apiProvider, params, pc, gp, osmRunning, both, bothChan, result>>
    /\ UNCHANGED <<cacheVars, dedupVars, adapterVars, handlerVars, callVars, lockVars, fetchVars>>

\* the fan-out receives one report
FanOutReceive ==
    /\ gp.pc = "collect"
    /\ CollectMore(gp.i, gp.total)
    /\ resultsChan # <<>>
    /\ gp' = FanOutCollect(gp, Head(resultsChan))
    /\ resultsChan' = Tail(resultsChan)
    /\ UNCHANGED <<apiProvider, params, pc, tasks, osmRunning, both, bothChan, result>>
    /\ UNCHANGED <<cacheVars, dedupVars, adapterVars, handlerVars, callVars, lockVars, fetchVars>>

\* the loop is over: error check, dedup, ranking, return
FanOutFinish ==
    /\ gp.pc = "collect"
    /\ ~CollectMore(gp.i, gp.total)
    /\ GoogleReturns(FanOutReturn(gp))
    /\ UNCHANGED <<apiProvider, params, tasks, resultsChan, osmRunning, both>>
    /\ UNCHANGED <<cacheVars, dedupVars, adapterVars, handlerVars, callVars, lockVars, fetchVars>>

\* the community adapter: called directly, or by the both-mode goroutine
OSMSearch ==
    /\ \E ans \in OSMAnswers :
          \/ /\ pc = "osm"
             /\ result' = OSMResult(ans)
             /\ pc' = "done"
             /\ UNCHANGED <<osmRunning, bothChan>>
          \/ /\ pc = "both"
             /\ osmRunning
             /\ Len(bothChan) < BothSearches
             /\ bothChan' = Append(bothChan, [source |-> SourceOSM, res |-> OSMResult(ans)])
             /\ osmRunning' = FALSE
             /\ UNCHANGED <<result, pc>>
    /\ UNCHANGED <<apiProvider, params, gp, tasks, resultsChan, both>>
    /\ UNCHANGED <<cacheVars, dedupVars, adapterVars, handlerVars, callVars, lockVars, fetchVars>>

\* the both-mode aggregator receives one report
BothReceive ==
    /\ pc = "both"
    /\ CollectMore(both.i, BothSearches)
    /\ bothChan # <<>>
    /\ both' = BothCollect(both, Head(bothChan))
    /\ bothChan' = Tail(bothChan)
    /\ UNCHANGED <<apiProvider, params, pc, gp, tasks, resultsChan, osmRunning, result>>
    /\ UNCHANGED <<cacheVars, dedupVars, adapterVars, handlerVars, callVars, lockVars, fetchVars>>

\* the loop is over: error check, dedup, ranking, return
BothFinish ==
    /\ pc = "both"
    /\ ~CollectMore(both.i, BothSearches)
    /\ result' = BothReturn(both)
    /\ pc' = "done"
    /\ UNCHANGED <<apiProvider, params, gp, tasks, resultsChan, osmRunning, both, bothChan>>
    /\ UNCHANGED <<cacheVars, dedupVars, adapterVars, handlerVars, callVars, lockVars, fetchVars>>

SearchNext ==
    \/ Start
    \/ GoogleSimple
    \/ \E t \in tasks : TaskFinish(t)
    \/ FanOutReceive
    \/ FanOutFinish
    \/ OSMSearch
    \/ BothReceive
    \/ BothFinish

\* only a search request runs, on an empty cache
InitSearch == CacheInit /\ DedupIdle /\ SearchInit /\ AdapterIdle /\ HandlerIdle /\ LockIdle /\ FetchIdle /\ CallIdle

SpecSearch == InitSearch /\ [][SearchNext]_vars

----------------------------------------------------------------------------
(* deduplicateRestaurants on its own *)

NameJo == <<"J", "o">>
NameKi == <<"K", "i">>

\* names as the providers give them and as the both-mode aggregator marks them
DedupNames ==
    {NameJo, <<"j", "o", " ">>, NameKi,
     MarkName(SourceGoogle, NameJo),
     MarkName(SourceOSM, <<"j", "o">>),
     MarkName(SourceOSM, <<" ", "J", "o">>)}

\* latitudes on both sides of the equator and in the next grid cell
DedupLats == {-1, 1, 3}

DedupPool ==
    {Restaurant(n, 0, 0, lat, 1, 0) : n \in DedupNames, lat \in DedupLats}

DedupInputs ==
    UNION {[1..n -> DedupPool] : n \in 0..MaxDedupLen}

DedupInit ==
    /\ dedupIn \in DedupInputs
    /\ dedupOut = <<>>
    /\ dedupPc = "in"

DedupOnce ==
    /\ dedupPc = "in"
    /\ dedupOut' = <<deduplicateRestaurants(dedupIn)>>
    /\ dedupPc' = "once"
    /\ UNCHANGED <<dedupIn, cacheVars, searchVars, adapterVars, handlerVars, callVars, lockVars, fetchVars>>

DedupTwice ==
    /\ dedupPc = "once"
    /\ dedupOut' = Append(dedupOut, deduplicateRestaurants(dedupOut[1]))
    /\ dedupPc' = "twice"
    /\ UNCHANGED <<dedupIn, cacheVars, searchVars, adapterVars, handlerVars, callVars, lockVars, fetchVars>>

DedupNext == DedupOnce \/ DedupTwice

\* only deduplicateRestaurants runs
InitDedup == CacheInit /\ DedupInit /\ SearchIdle /\ AdapterIdle /\ HandlerIdle /\ LockIdle /\ FetchIdle /\ CallIdle

SpecDedup == InitDedup /\ [][DedupNext]_vars

----------------------------------------------------------------------------
(* Claims about deduplication *)

\* the key as the claim describes it: the provider marker stripped, then case
\* and surrounding whitespace normalized, and the grid cell of each coordinate
ClaimName(name) ==
    ToLower(TrimSpace(
        TrimPrefix(TrimPrefix(name, MarkName(SourceGoogle, <<>>)),
                   MarkName(SourceOSM, <<>>))))

ClaimCell(x) ==
    IF x >= 0 THEN (2 * x + proximityThreshold) \div (2 * proximityThreshold)
    ELSE -((2 * (-x) + proximityThreshold) \div (2 * proximityThreshold))

ClaimKey(r) == <<ClaimName(r.Name), ClaimCell(r.Latitude), ClaimCell(r.Longitude)>>

\* the indices of in whose record is the first of in with its key
FirstOfKey(in, Key(_)) ==
    {i \in 1..Len(in) : \A j \in 1..(i - 1) : Key(in[j]) # Key(in[i])}

\* out is in restricted to the indices of keep, in order
IsRestriction(out, in, keep) ==
    /\ Len(out) = Cardinality(keep)
    /\ \A i \in keep :
          out[Cardinality({j \in keep : j <= i})] = in[i]

\* C7 as stated, with the key of the claim: the result holds exactly the
\* first record of each key, in input order, so its keys are pairwise distinct
C7_Original ==
    dedupPc = "once" =>
        /\ IsRestriction(dedupOut[1], dedupIn, FirstOfKey(dedupIn, ClaimKey))
        /\ \A i, j \in 1..Len(dedupOut[1]) :
              i # j => ClaimKey(dedupOut[1][i]) # ClaimKey(dedupOut[1][j])

\* C8: deduplicating the result of deduplicateRestaurants gives that result
C8_Idempotent ==
    dedupPc = "twice" => dedupOut[2] = dedupOut[1]

\* the second call ran on the result of a call that had dropped records and
\* kept more than one
C8_Witness ==
    /\ dedupPc = "twice"
    /\ Len(dedupOut[1]) = 2
    /\ Len(dedupIn) = 3

----------------------------------------------------------------------------
(* Claims about a search request *)

FanOutUsed == apiProvider # "osm" /\ ~UsesSimpleSearch(params)

\* the reports a collector has taken, each from a different call
NoRepeat(seq) == \A i, j \in 1..Len(seq) : i # j => seq[i] # seq[j]

BothSources(b) == [i \in 1..Len(b.collected) |-> b.collected[i].source]

\* C5: both collectors take at most one report from a call, and when the
\* fan-out has returned (after dedup and ranking) it has taken one report
\* from every goroutine it started, none is still running and none is left in
\* the channel; the same for the both-mode aggregator and its two goroutines
C5_WaitForAll ==
    /\ NoRepeat(gp.collected)
    /\ NoRepeat(BothSources(both))
    /\ (FanOutUsed /\ gp.pc = "returned") =>
          /\ tasks = {}
          /\ resultsChan = <<>>
          /\ Range(gp.collected) = StartedTasks(params)
          /\ gp.i = gp.total
    /\ (apiProvider = "both" /\ pc = "done") =>
          /\ gp.pc = "returned"
          /\ ~osmRunning
          /\ bothChan = <<>>
          /\ Range(BothSources(both)) = {SourceGoogle, SourceOSM}

\* a both-mode search has returned records although a call of the fan-out
\* inside it had reported an error first
C5_Witness ==
    /\ apiProvider = "both"
    /\ pc = "done"
    /\ gp.total = 3
    /\ Len(gp.errors) > 0
    /\ gp.collected[1] = 1
    /\ ~result.err
    /\ Len(result.Restaurants) > 1

\* x may stand before y in a ranked list
RankedBefore(x, y) ==
    LET scoreX == calculateWeightedScore(x.Rating, x.ReviewCount)
        scoreY == calculateWeightedScore(y.Rating, y.ReviewCount)
    IN  \/ FloatLess(scoreY, scoreX)
        \/ FloatEq(scoreX, scoreY) /\ x.Distance <= y.Distance

\* C6 as stated: in the list a search returns, in every mode, a record before
\* another has the greater score, or the same score and no greater distance
C6_Original ==
    (pc = "done" /\ ~result.err) =>
        \A i, j \in 1..Len(result.Restaurants) :
            i < j => RankedBefore(result.Restaurants[i], result.Restaurants[j])

\* what a provider reported to the both-mode aggregator
ReportOf(source) ==
    LET k == CHOOSE k \in 1..Len(both.collected) : both.collected[k].source = source
    IN  both.collected[k].res

Occurrences(seq, x) == Cardinality({i \in 1..Len(seq) : seq[i] = x})

\* C9 as stated: of a commercial and a community record whose names are equal
\* once the marker is stripped and case and surrounding whitespace are
\* normalized, and whose coordinates snap to the same grid cell, exactly one
\* is in the list a both-mode search returns
C9_Original ==
    (apiProvider = "both" /\ pc = "done" /\ ~result.err
        /\ ~ReportOf(SourceGoogle).err /\ ~ReportOf(SourceOSM).err) =>
        \A g \in Range(ReportOf(SourceGoogle).Restaurants),
           o \in Range(ReportOf(SourceOSM).Restaurants) :
            (/\ ClaimName(g.Name) = ClaimName(o.Name)
             /\ ClaimCell(g.Latitude) = ClaimCell(o.Latitude)
             /\ ClaimCell(g.Longitude) = ClaimCell(o.Longitude)) =>
                Occurrences(result.Restaurants,
                            [g EXCEPT !.Name = MarkName(SourceGoogle, @)])
                + Occurrences(result.Restaurants,
                              [o EXCEPT !.Name = MarkName(SourceOSM, @)]) = 1

\* C10 as stated: a both-mode search returns an error exactly when the
\* commercial path and the community path both reported an error
C10_Original ==
    (apiProvider = "both" /\ pc = "done") =>
        (result.err <=> (ReportOf(SourceGoogle).err /\ ReportOf(SourceOSM).err))

----------------------------------------------------------------------------
(* Claims about the failures of the commercial fan-out *)

FanOutReturned == FanOutUsed /\ gp.pc = "returned"

CategoryTasks == {t \in StartedTasks(params) : TaskSource(t).kind = "category"}

\* C11: when no category call has failed, the fan-out returns no error,
\* however many cuisine and text calls have failed and even if no record came
\* in; the records it works on are those the successful calls returned
C11_SupplementaryNonFatal ==
    (FanOutReturned /\ gp.failed \cap CategoryTasks = {}) =>
        /\ ~gp.ret.err
        /\ gp.ret.Stats.TotalBeforeDedup = Len(gp.allRestaurants)
        /\ gp.ret.Stats.GoogleResultsFiltered = Len(gp.allRestaurants)

\* every text call failed, the one category call found nothing, and the
\* fan-out returned an empty result without error
C11_Witness ==
    /\ FanOutReturned
    /\ gp.total = 3
    /\ gp.failed = StartedTasks(params) \ CategoryTasks
    /\ ~gp.ret.err
    /\ gp.ret.Restaurants = <<>>

\* C12 as stated: the fan-out returns an error only if every category call
\* failed
C12_Original ==
    FanOutReturned => (gp.ret.err => CategoryTasks \subseteq gp.failed)

\* C13 as stated: when every call of the fan-out has failed, the search
\* returns an error that names the source of every failed call
C13_Original ==
    (apiProvider = "google" /\ pc = "done" /\ FanOutUsed
        /\ gp.failed = StartedTasks(params)) =>
        /\ result.err
        /\ Range(result.errors) = {TaskSource(t) : t \in gp.failed}

\* C13 amended: the error names every failed category call once, in the
\* order the failures arrived, and no cuisine or text call
C13_CategoryErrors ==
    (apiProvider = "google" /\ pc = "done" /\ FanOutUsed
        /\ gp.failed = StartedTasks(params)) =>
        /\ result.err
        /\ Len(result.errors) = Cardinality(CategoryTasks)
        /\ Range(result.errors) = {TaskSource(t) : t \in CategoryTasks}
        /\ result.errors =
              [k \in 1..Len(result.errors) |->
                  TaskSource(SelectSeq(gp.collected,
                                       LAMBDA t : t \in CategoryTasks)[k])]

\* a search of two categories whose calls both failed
C13_Witness ==
    /\ apiProvider = "google"
    /\ pc = "done"
    /\ gp.total = 2
    /\ gp.failed = StartedTasks(params)
    /\ Len(result.errors) = 2

----------------------------------------------------------------------------
(* The commercial adapters, page by page:                                  *)
(* findNearbyRestaurantsGoogleByTypeWithStats and                          *)
(* findNearbyRestaurantsGoogleTextSearchWithStats                          *)

\* a type tag is a sequence of characters, as a name is
validFoodTypes ==
    {<<"r","e","s","t","a","u","r","a","n","t">>,
     <<"c","a","f","e">>,
     <<"b","a","r">>,
     <<"b","a","k","e","r","y">>,
     <<"m","e","a","l","_","d","e","l","i","v","e","r","y">>,
     <<"m","e","a","l","_","t","a","k","e","a","w","a","y">>,
     <<"n","i","g","h","t","_","c","l","u","b">>,
     <<"f","o","o","d">>,
     <<"f","a","s","t","_","f","o","o","d">>,
     <<"p","u","b">>,
     <<"b","i","e","r","g","a","r","t","e","n">>,
     <<"f","o","o","d","_","c","o","u","r","t">>,
     <<"i","c","e","_","c","r","e","a","m">>,
     <<"i","n","d","i","a","n","_","r","e","s","t","a","u","r","a","n","t">>,
     <<"c","h","i","n","e","s","e","_","r","e","s","t","a","u","r","a","n","t">>,
     <<"t","h","a","i","_","r","e","s","t","a","u","r","a","n","t">>,
     <<"j","a","p","a","n","e","s","e","_","r","e","s","t","a","u","r","a","n","t">>,
     <<"k","o","r","e","a","n","_","r","e","s","t","a","u","r","a","n","t">>,
     <<"v","i","e","t","n","a","m","e","s","e","_","r","e","s","t","a","u","r","a","n","t">>,
     <<"i","t","a","l","i","a","n","_","r","e","s","t","a","u","r","a","n","t">>,
     <<"m","e","x","i","c","a","n","_","r","e","s","t","a","u","r","a","n","t">>,
     <<"f","r","e","n","c","h","_","r","e","s","t","a","u","r","a","n","t">>,
     <<"g","r","e","e","k","_","r","e","s","t","a","u","r","a","n","t">>,
     <<"m","e","d","i","t","e","r","r","a","n","e","a","n","_","r","e","s","t","a","u","r","a","n","t">>,
     <<"a","m","e","r","i","c","a","n","_","r","e","s","t","a","u","r","a","n","t">>,
     <<"b","r","a","z","i","l","i","a","n","_","r","e","s","t","a","u","r","a","n","t">>,
     <<"s","p","a","n","i","s","h","_","r","e","s","t","a","u","r","a","n","t">>,
     <<"m","i","d","d","l","e","_","e","a","s","t","e","r","n","_","r","e","s","t","a","u","r","a","n","t">>,
     <<"t","u","r","k","i","s","h","_","r","e","s","t","a","u","r","a","n","t">>,
     <<"l","e","b","a","n","e","s","e","_","r","e","s","t","a","u","r","a","n","t">>,
     <<"i","n","d","o","n","e","s","i","a","n","_","r","e","s","t","a","u","r","a","n","t">>,
     <<"a","s","i","a","n","_","r","e","s","t","a","u","r","a","n","t">>,
     <<"a","f","r","i","c","a","n","_","r","e","s","t","a","u","r","a","n","t">>,
     <<"s","e","a","f","o","o","d","_","r","e","s","t","a","u","r","a","n","t">>,
     <<"s","t","e","a","k","_","h","o","u","s","e">>,
     <<"b","a","r","b","e","c","u","e","_","r","e","s","t","a","u","r","a","n","t">>,
     <<"p","i","z","z","a","_","r","e","s","t","a","u","r","a","n","t">>,
     <<"h","a","m","b","u","r","g","e","r","_","r","e","s","t","a","u","r","a","n","t">>,
     <<"s","a","n","d","w","i","c","h","_","s","h","o","p">>,
     <<"r","a","m","e","n","_","r","e","s","t","a","u","r","a","n","t">>,
     <<"s","u","s","h","i","_","r","e","s","t","a","u","r","a","n","t">>,
     <<"v","e","g","e","t","a","r","i","a","n","_","r","e","s","t","a","u","r","a","n","t">>,
     <<"v","e","g","a","n","_","r","e","s","t","a","u","r","a","n","t">>,
     <<"b","r","u","n","c","h","_","r","e","s","t","a","u","r","a","n","t">>,
     <<"b","r","e","a","k","f","a","s","t","_","r","e","s","t","a","u","r","a","n","t">>,
     <<"b","u","f","f","e","t","_","r","e","s","t","a","u","r","a","n","t">>,
     <<"f","i","n","e","_","d","i","n","i","n","g","_","r","e","s","t","a","u","r","a","n","t">>,
     <<"f","a","s","t","_","f","o","o","d","_","r","e","s","t","a","u","r","a","n","t">>,
     <<"c","o","f","f","e","e","_","s","h","o","p">>,
     <<"t","e","a","_","h","o","u","s","e">>,
     <<"j","u","i","c","e","_","s","h","o","p">>,
     <<"i","c","e","_","c","r","e","a","m","_","s","h","o","p">>,
     <<"d","e","s","s","e","r","t","_","s","h","o","p">>,
     <<"d","o","n","u","t","_","s","h","o","p">>,
     <<"c","a","n","d","y","_","s","t","o","r","e">>,
     <<"w","i","n","e","_","b","a","r">>,
     <<"c","o","c","k","t","a","i","l","_","b","a","r">>,
     <<"s","p","o","r","t","s","_","b","a","r">>,
     <<"b","e","e","r","_","h","a","l","l">>,
     <<"b","e","e","r","_","g","a","r","d","e","n">>}

\* the substrings isFoodRelatedPlace looks for, in the order it tests them
foodSubstrings ==
    <<<<"r","e","s","t","a","u","r","a","n","t">>,
      <<"f","o","o","d">>,
      <<"c","a","f","e">>,
      <<"b","a","r">>,
      <<"b","a","k","e","r","y">>,
      <<"d","i","n","i","n","g">>,
      <<"e","a","t","e","r","y">>>>

\* strings.Contains
Contains(str, sub) ==
    \E k \in 0..(Len(str) - Len(sub)) : SubSeq(str, k + 1, k + Len(sub)) = sub

\* the body of the loop of isFoodRelatedPlace for one type tag
IsFoodTag(t) ==
    \/ t \in validFoodTypes
    \/ \E k \in DOMAIN foodSubstrings : Contains(ToLower(t), foodSubstrings[k])

\* mutant of isFoodRelatedPlace: a place without type tags is dropped
isFoodRelatedPlaceClosed(types) ==
    \E k \in DOMAIN types : IsFoodTag(types[k])

\* the loop returns true at the first food tag; after it, len(types) == 0
RECURSIVE isFoodRelatedPlace(_)
isFoodRelatedPlace(types) ==
    IF types = <<>> THEN TRUE
    ELSE IF IsFoodTag(Head(types)) THEN TRUE
    ELSE IF Len(types) = 1 THEN FALSE
    ELSE isFoodRelatedPlace(Tail(types))

\* a result of the provider (maps.PlacesSearchResult)
ProviderPlace(name, rating, userRatingsTotal, types, lat, lng) ==
    [Name |-> name, Rating |-> rating, UserRatingsTotal |-> userRatingsTotal,
     Types |-> types, Lat |-> lat, Lng |-> lng]

\* the record the adapters build from a result they keep
ToRestaurant(place) ==
    Restaurant(place.Name, place.Rating,
               IF place.UserRatingsTotal > 0 THEN place.UserRatingsTotal ELSE 0,
               place.Lat, place.Lng,
               calculateDistance(QueryLat, QueryLon, place.Lat, place.Lng))

\* the loop over resp.Results: the kept results, converted, in page order
RECURSIVE ConvertResults(_)
ConvertResults(results) ==
    IF results = <<>> THEN <<>>
    ELSE IF ~isFoodRelatedPlace(Head(results).Types)
         THEN ConvertResults(Tail(results))
         ELSE <<ToRestaurant(Head(results))>> \o ConvertResults(Tail(results))

TagStore == <<"s","t","o","r","e">>
TagPub == <<"p","u","b">>
TagGym == <<"g","y","m">>
TagWineBar == <<"W","i","n","e","_","B","a","r">>

\* the places of the provider in the page-by-page model
PlaceJo == ProviderPlace(<<"J", "o">>, 45, 100, <<TagStore, TagPub>>, 1, 1)
PlaceKi == ProviderPlace(<<"K", "i">>, 50, 1, <<TagWineBar>>, 3, 1)
PlaceGy == ProviderPlace(<<"G", "y">>, 48, 30, <<TagGym, TagStore>>, 2, 1)
PlaceLi == ProviderPlace(<<"L", "i">>, 0, -1, <<>>, 6, 1)

\* what a page of the provider can hold
PageChoices ==
    {<<>>, <<PlaceJo, PlaceGy>>, <<PlaceLi, PlaceKi>>, <<PlaceGy>>}

\* for page := 0; page < 3; page++
maxPages == 3

\* continuation tokens are numbered; 0 is the empty token
NoToken == 0

ErrResponse(notReady) ==
    [err |-> TRUE, notReady |-> notReady, results |-> <<>>, next |-> NoToken]

OkResponse(results, next) ==
    [err |-> FALSE, notReady |-> FALSE, results |-> results, next |-> next]

\* mutant of DeadlinePassed: the call has no deadline
DeadlineNever(sent) == FALSE

\* ctx, cancel := context.WithTimeout(context.Background(), 30*time.Second):
\* every request for a later page follows a sleep of two seconds or more, so
\* after MaxRequests - 1 requests the deadline of the call has passed
DeadlinePassed(sent) == sent + 1 >= MaxRequests

\* what the provider can answer to the next request: an error (with
\* invalid_request in its text, or another one), or a page with or without a
\* fresh continuation token.  A request sent after the deadline of the call
\* fails with the error of the context, which is not the not-ready error.
ProviderResponses ==
    {ErrResponse(FALSE)}
    \cup (IF DeadlinePassed(Len(requests)) THEN {}
          ELSE {ErrResponse(TRUE)}
               \cup {OkResponse(results, next) :
                        results \in PageChoices,
                        next \in {NoToken, Len(requests) + 1}})

\* mutant of RequestToken: the token of the page before is not sent
RequestTokenNone(page, nextPageToken) == NoToken

\* request.PageToken: unset for the first page, then nextPageToken
RequestToken(page, nextPageToken) ==
    IF page > 0 THEN nextPageToken ELSE NoToken

\* the nearby search asks for the same page again; the text search does not
RetriesPage(a, resp) ==
    a.kind = "nearby" /\ a.page > 0 /\ resp.notReady

\* mutant of FatalPage: an error ends the call whatever the page
FatalPageAny(page) == TRUE

\* if page == 0 { return nil, fmt.Errorf(...) }
FatalPage(page) == page = 0

\* one iteration of the page loop, answered with resp
PageLoop(a, resp) ==
    IF resp.err
    THEN IF RetriesPage(a, resp) THEN a
         ELSE IF FatalPage(a.page)
              THEN [a EXCEPT !.pc = "done", !.ret = ErrResult(<<>>)]
              ELSE [a EXCEPT !.pc = "after"]
    ELSE LET a1 == [a EXCEPT
                      !.stats = [@ EXCEPT
                          !.GooglePagesSearched = @ + 1,
                          !.GoogleResultsRaw = @ + Len(resp.results)],
                      !.allRestaurants = @ \o ConvertResults(resp.results)]
         IN  IF resp.next = NoToken
             THEN [a1 EXCEPT !.pc = "after"]
             ELSE [a1 EXCEPT !.nextPageToken = resp.next,
                             !.page = @ + 1,
                             !.pc = IF a.page + 1 < maxPages THEN "loop" ELSE "after"]

\* after the loop: the filtered count, the ranking (nearby search only), the
\* return
AdapterResult(a) ==
    OkResult(IF a.kind = "nearby" THEN sortRestaurantsByRating(a.allRestaurants)
             ELSE a.allRestaurants,
             [a.stats EXCEPT !.GoogleResultsFiltered = Len(a.allRestaurants)])

\* an adapter call before its page loop: allRestaurants := make(...),
\* var nextPageToken string, stats := SearchStats{}
StartedCall(kind) ==
    [kind |-> kind, pc |-> "loop", page |-> 0, nextPageToken |-> NoToken,
     allRestaurants |-> <<>>, stats |-> ZeroStats, ret |-> NoResult]

AdapterInit ==
    /\ ad \in {StartedCall(k) : k \in {"nearby", "text"}}
    /\ requests = <<>>

AdapterPage ==
    /\ ad.pc = "loop"
    /\ \E resp \in ProviderResponses :
          /\ requests' = Append(requests,
                [page |-> ad.page,
                 token |-> RequestToken(ad.page, ad.nextPageToken),
                 resp |-> resp])
          /\ ad' = PageLoop(ad, resp)
    /\ UNCHANGED <<cacheVars, dedupVars, searchVars, handlerVars, callVars, lockVars, fetchVars>>

AdapterReturn ==
    /\ ad.pc = "after"
    /\ ad' = [ad EXCEPT !.pc = "done", !.ret = AdapterResult(ad)]
    /\ UNCHANGED <<requests, cacheVars, dedupVars, searchVars, handlerVars, callVars, lockVars, fetchVars>>

AdapterNext == AdapterPage \/ AdapterReturn

\* only one adapter call runs
InitAdapter == CacheInit /\ DedupIdle /\ SearchIdle /\ AdapterInit /\ HandlerIdle /\ LockIdle /\ FetchIdle /\ CallIdle

SpecAdapter == InitAdapter /\ [][AdapterNext]_vars

----------------------------------------------------------------------------
(* Claims about the commercial adapters *)

\* the results on the pages the call has fetched, in order
RECURSIVE FetchedResults(_)
FetchedResults(log) ==
    IF log = <<>> THEN <<>>
    ELSE (IF Head(log).resp.err THEN <<>> ELSE Head(log).resp.results)
         \o FetchedResults(Tail(log))

\* the filter as the claim states it: a result is dropped iff it has a type
\* tag and none of its tags is whitelisted or contains a food substring
ClaimDrops(place) ==
    /\ Len(place.Types) >= 1
    /\ \A k \in DOMAIN place.Types :
          /\ place.Types[k] \notin validFoodTypes
          /\ \A n \in DOMAIN foodSubstrings :
                ~Contains(ToLower(place.Types[k]), foodSubstrings[n])

ClaimKept(log) ==
    LET kept == SelectSeq(FetchedResults(log), LAMBDA place : ~ClaimDrops(place))
    IN  [k \in 1..Len(kept) |-> ToRestaurant(kept[k])]

\* C14: an adapter call that succeeds returns the records of exactly the
\* fetched results the filter keeps (ranked by the nearby search, in page
\* order by the text search); GoogleResultsRaw counts every fetched result and
\* GoogleResultsFiltered the records returned
C14_FoodFilter ==
    (ad.pc = "done" /\ ~ad.ret.err) =>
        /\ ad.ret.Restaurants =
              IF ad.kind = "nearby" THEN sortRestaurantsByRating(ClaimKept(requests))
              ELSE ClaimKept(requests)
        /\ ad.ret.Stats.GoogleResultsRaw = Len(FetchedResults(requests))
        /\ ad.ret.Stats.GoogleResultsFiltered = Len(ad.ret.Restaurants)

\* a call has fetched two pages, dropped a result with tags, kept one without
C14_Witness ==
    /\ ad.pc = "done"
    /\ ~ad.ret.err
    /\ ad.ret.Stats.GooglePagesSearched = 2
    /\ ad.ret.Stats.GoogleResultsRaw = 4
    /\ ad.ret.Stats.GoogleResultsFiltered = 3
    /\ \E k \in DOMAIN ad.ret.Restaurants : ad.ret.Restaurants[k].Name = PlaceLi.Name

----------------------------------------------------------------------------
(* Claims about the order in which the concurrent calls report *)

\* the report the both-mode aggregator took from a provider, as a message
BothMessage(source) == [source |-> source, res |-> ReportOf(source)]

\* what the aggregator returns for the reports it took, had the commercial
\* path reported first
BothReturnGoogleFirst ==
    BothReturn(BothCollect(BothCollect(IdleBoth, BothMessage(SourceGoogle)),
                           BothMessage(SourceOSM)))

\* C15 as stated, for the both-mode aggregator: the records returned, with
\* their fields and in their order, are those returned for the same two
\* reports in the other order of arrival
C15_Original ==
    (apiProvider = "both" /\ pc = "done") =>
        /\ result.err = BothReturnGoogleFirst.err
        /\ result.Restaurants = BothReturnGoogleFirst.Restaurants

----------------------------------------------------------------------------
(* The request handlers: the /api/restaurants handler of main and          *)
(* RestaurantBot.handleLocation                                            *)

\* a Go slice of records: the nil slice and an empty slice are different
\* values to the handlers
NilSlice == [isNil |-> TRUE, elems |-> <<>>]
Slice(elems) == [isNil |-> FALSE, elems |-> elems]

\* the list the fan-out and the both-mode aggregator return: allRestaurants
\* is declared without a value and deduplicateRestaurants returns its
\* argument when it is empty
MergedSlice(elems) == IF elems = <<>> THEN NilSlice ELSE Slice(elems)

\* the category sets of the requests: the bot asks for all categories
\* (Categories: nil), the HTTP requests of the model name restaurant only, or
\* cafe and bar
AllCategories == <<>>
HandlerCategories == {<<"restaurant">>, <<"cafe", "bar">>}

\* the records an aggregation for the category set finds when it finds any
FoundFor(categories) ==
    IF categories = AllCategories THEN <<GoogleJo, GoogleKi, GoogleLi>>
    ELSE IF categories = <<"restaurant">> THEN <<GoogleJo>>
    ELSE <<GoogleKi, GoogleLi>>

\* what findNearbyRestaurantsWithStats can return to a handler: an error, the
\* merged list of the fan-out, or the list of the single adapter call of the
\* simple search (made with make, never nil); the provider finds the places
\* of the category set or none
AggregatorReturns(categories, keyword) ==
    LET simple == UsesSimpleSearch([Categories |-> categories, Keyword |-> keyword])
    IN  {ErrResult(<<>>)}
        \cup {IF simple
              THEN OkResult(Slice(elems),
                            SearchStats(1, 0, Len(elems), Len(elems), 0, 0, 0, FALSE))
              ELSE OkResult(MergedSlice(elems),
                            SearchStats(1, 2, Len(elems), Len(elems), 0, Len(elems),
                                        Len(elems), FALSE)) :
                 elems \in {<<>>, FoundFor(categories)}}

\* the request a handler has served: what it asked for, what Get reported,
\* whether the aggregator ran, the outcome, the records it answered with and
\* the number of messages it sent to the chat; seq changes with every request
Served(handler, categories, keyword, found, searched, status, served, messages) ==
    [handler |-> handler, categories |-> categories, keyword |-> keyword,
     found |-> found, searched |-> searched, status |-> status,
     served |-> served, messages |-> messages, seq |-> 1 - req.seq]

\* the cache may grow by one entry
RoomFor(lat, lon) == SetIndex(items, lat, lon) = 0 => Len(items) < MaxItems

\* mutant of HandleAPI: the cache is asked and filled whatever the keyword
HandleAPIAlwaysCached(lat, categories, keyword) ==
    LET got == GetResult(items, now, lat, QueryLon)
    IN  IF got.found /\ ~got.restaurants.isNil
        THEN /\ req' = Served("api", categories, keyword, TRUE, FALSE, "ok",
                              got.restaurants.elems, 0)
             /\ UNCHANGED items
        ELSE \E out \in AggregatorReturns(categories, ResolveKeyword(keyword)) :
                IF out.err
                THEN /\ req' = Served("api", categories, keyword, got.found, TRUE,
                                      "error", <<>>, 0)
                     /\ UNCHANGED items
                ELSE /\ req' = Served("api", categories, keyword, got.found, TRUE,
                                      "ok", out.Restaurants.elems, 0)
                     /\ RoomFor(lat, QueryLon)
                     /\ items' = SetItems(items, now, lat, QueryLon,
                                          out.Restaurants, out.Stats)

\* the /api/restaurants handler, from the cache check to the list it pages
HandleAPI(lat, categories, keyword) ==
    LET got == GetResult(items, now, lat, QueryLon)
        found == keyword = "" /\ got.found
        allRestaurants == IF found THEN got.restaurants ELSE NilSlice
    IN  IF ~allRestaurants.isNil
        THEN /\ req' = Served("api", categories, keyword, found, FALSE, "ok",
                              allRestaurants.elems, 0)
             /\ UNCHANGED items
        ELSE \E out \in AggregatorReturns(categories, ResolveKeyword(keyword)) :
                IF out.err
                THEN /\ req' = Served("api", categories, keyword, found, TRUE,
                                      "error", <<>>, 0)
                     /\ UNCHANGED items
                ELSE /\ req' = Served("api", categories, keyword, found, TRUE,
                                      "ok", out.Restaurants.elems, 0)
                     /\ IF keyword = ""
                        THEN /\ RoomFor(lat, QueryLon)
                             /\ items' = SetItems(items, now, lat, QueryLon,
                                                  out.Restaurants, out.Stats)
                        ELSE UNCHANGED items

\* sendRestaurantsFromCache: the number of messages it sends for the list
ListMessages(restaurants) == IF Len(restaurants) = 0 THEN 0 ELSE 1

\* mutant of HandleLocation: what the aggregator returned is stored even when
\* it is an error
HandleLocationStoresError(lat) ==
    LET got == GetResult(items, now, lat, QueryLon)
    IN  IF got.found
        THEN /\ req' = Served("location", AllCategories, "", TRUE, FALSE, "ok",
                              got.restaurants.elems,
                              ListMessages(got.restaurants.elems))
             /\ UNCHANGED items
        ELSE \E out \in AggregatorReturns(AllCategories, "") :
                /\ req' = Served("location", AllCategories, "", FALSE, TRUE,
                                 IF out.err THEN "error" ELSE "ok", <<>>, 2)
                /\ RoomFor(lat, QueryLon)
                /\ items' = SetItems(items, now, lat, QueryLon,
                                     IF out.err THEN NilSlice ELSE out.Restaurants,
                                     out.Stats)

\* RestaurantBot.handleLocation: on a hit the cached list is sent; on a miss
\* the searching notice is sent, then the error notice, the no-restaurants
\* notice or the list
HandleLocation(lat) ==
    LET got == GetResult(items, now, lat, QueryLon)
    IN  IF got.found
        THEN /\ req' = Served("location", AllCategories, "", TRUE, FALSE, "ok",
                              got.restaurants.elems,
                              ListMessages(got.restaurants.elems))
             /\ UNCHANGED items
        ELSE \E out \in AggregatorReturns(AllCategories, "") :
                IF out.err
                THEN /\ req' = Served("location", AllCategories, "", FALSE, TRUE,
                                      "error", <<>>, 1 + 1)
                     /\ UNCHANGED items
                ELSE IF Len(out.Restaurants.elems) = 0
                THEN /\ req' = Served("location", AllCategories, "", FALSE, TRUE,
                                      "empty", <<>>, 1 + 1)
                     /\ UNCHANGED items
                ELSE /\ req' = Served("location", AllCategories, "", FALSE, TRUE,
                                      "ok", out.Restaurants.elems,
                                      1 + ListMessages(out.Restaurants.elems))
                     /\ RoomFor(lat, QueryLon)
                     /\ items' = SetItems(items, now, lat, QueryLon,
                                          out.Restaurants, out.Stats)

\* the points of the requests: two neighbourhoods that do not overlap
HandlerLats == {0, MaxLat}

\* the sweep between two requests
HandlerSweep ==
    /\ items' = CleanupItems(items, now)
    /\ UNCHANGED <<now, lastOp, lastSet>>

HandlerNext ==
    \/ \E lat \in HandlerLats, categories \in HandlerCategories,
          keyword \in KeywordChoices :
          /\ HandleAPI(lat, categories, keyword)
          /\ UNCHANGED <<now, lastOp, lastSet, dedupVars, searchVars, adapterVars, callVars, lockVars, fetchVars>>
    \/ \E lat \in HandlerLats :
          /\ HandleLocation(lat)
          /\ UNCHANGED <<now, lastOp, lastSet, dedupVars, searchVars, adapterVars, callVars, lockVars, fetchVars>>
    \/ HandlerSweep /\ UNCHANGED <<dedupVars, searchVars, adapterVars, handlerVars, callVars, lockVars, fetchVars>>
    \/ Tick /\ UNCHANGED <<dedupVars, searchVars, adapterVars, handlerVars, callVars, lockVars, fetchVars>>

\* the handlers run on the cache; the aggregator is seen by what it returns
InitHandler == CacheInit /\ DedupIdle /\ SearchIdle /\ AdapterIdle /\ HandlerIdle /\ LockIdle /\ FetchIdle /\ CallIdle

SpecHandler == InitHandler /\ [][HandlerNext]_vars

\* C16 as stated: a request without keyword for whose point Get reported
\* found has not run the aggregator
C16_Original ==
    (req.handler # "none" /\ req.keyword = "" /\ req.found) => ~req.searched

----------------------------------------------------------------------------
(* calculateWeightedScore on its own *)

\* ratings in tenths of a star, from 0 to 5 stars
ScoreRatings == {0, 10, 20, 35, 40, 45, 50}
ScoreReviewCounts == {0, 1, 15, 100}

\* two records to score
ScoreInit ==
    call \in {[fn |-> "calculateWeightedScore", pc |-> "in",
               in |-> <<[rating |-> r1, reviewCount |-> v1],
                        [rating |-> r2, reviewCount |-> v2]>>,
               out |-> <<>>] :
                 r1 \in ScoreRatings, r2 \in ScoreRatings,
                 v1 \in ScoreReviewCounts, v2 \in ScoreReviewCounts}

ScoreBoth ==
    /\ call.fn = "calculateWeightedScore"
    /\ call.pc = "in"
    /\ call' = [call EXCEPT
          !.pc = "done",
          !.out = [k \in 1..2 |->
                      calculateWeightedScore(call.in[k].rating,
                                             call.in[k].reviewCount)]]
    /\ UNCHANGED <<cacheVars, dedupVars, searchVars, adapterVars, handlerVars, lockVars, fetchVars>>

InitScore ==
    CacheInit /\ DedupIdle /\ SearchIdle /\ AdapterIdle /\ HandlerIdle /\ LockIdle /\ FetchIdle /\ ScoreInit

SpecScore == InitScore /\ [][ScoreBoth]_vars

\* a <= b for two scores
FloatLeq(a, b) == FloatLess(a, b) \/ FloatEq(a, b)

Scored == call.fn = "calculateWeightedScore" /\ call.pc = "done"

\* C17 as stated: with the review count fixed, a higher rating gives no
\* lower score; with the rating fixed, a higher review count gives no lower
\* score
C17_Original ==
    Scored =>
        /\ (call.in[1].reviewCount = call.in[2].reviewCount
              /\ call.in[1].rating <= call.in[2].rating)
            => FloatLeq(call.out[1], call.out[2])
        /\ (call.in[1].rating = call.in[2].rating
              /\ call.in[1].reviewCount <= call.in[2].reviewCount)
            => FloatLeq(call.out[1], call.out[2])

\* C17 amended: with the review count fixed, a higher rating gives no lower
\* score; with the rating fixed, a higher review count gives no lower score
\* when the rating is at least the prior 3.5, and no higher score when the
\* rating is at most 3.5
C17_Monotonic ==
    Scored =>
        /\ (call.in[1].reviewCount = call.in[2].reviewCount
              /\ call.in[1].rating <= call.in[2].rating)
            => FloatLeq(call.out[1], call.out[2])
        /\ (call.in[1].rating = call.in[2].rating
              /\ call.in[1].reviewCount <= call.in[2].reviewCount)
            => /\ call.in[1].rating >= PriorRating
                  => FloatLeq(call.out[1], call.out[2])
               /\ call.in[1].rating <= PriorRating
                  => FloatLeq(call.out[2], call.out[1])

\* a rating of 2.0 scored with no review and with 100 reviews: more reviews,
\* lower score
C17_Witness ==
    /\ Scored
    /\ call.in[1].rating = 20
    /\ call.in[2].rating = 20
    /\ call.in[1].reviewCount = 0
    /\ call.in[2].reviewCount = 100
    /\ FloatLess(call.out[2], call.out[1])

----------------------------------------------------------------------------
(* Claims about the records a search returns *)

\* C18 as stated: every record a search returns has a rating from 0 to 5
\* stars and a distance that is not negative
C18_Original ==
    (pc = "done" /\ ~result.err) =>
        \A k \in DOMAIN result.Restaurants :
            /\ result.Restaurants[k].Rating >= 0
            /\ result.Restaurants[k].Rating <= 50
            /\ result.Restaurants[k].Distance >= 0

----------------------------------------------------------------------------
(* Claims about pagination *)

\* request k of the call failed with the token-not-ready error on a later page
NotReadyAt(k) == requests[k].page > 0 /\ requests[k].resp.notReady

\* C19 as stated: in a nearby search a later page that fails with the
\* not-ready error is requested again, and once only: after a second
\* not-ready failure of that page no further request is sent
C19_Original ==
    ad.kind = "nearby" =>
        \A k \in DOMAIN requests :
            NotReadyAt(k) =>
                /\ k < Len(requests) => requests[k + 1].page = requests[k].page
                /\ (k > 1 /\ NotReadyAt(k - 1)) => k = Len(requests)

\* the responses that carried a page, up to request k
PagesBefore(k) == {j \in 1..(k - 1) : ~requests[j].resp.err}

\* the token the provider returned with the last page fetched before request k
LastToken(k) ==
    IF PagesBefore(k) = {} THEN NoToken
    ELSE requests[CHOOSE j \in PagesBefore(k) :
                      \A n \in PagesBefore(k) : n <= j].resp.next

\* C20: the first request is for the first page; a request is for the page
\* after the pages fetched so far and carries the token returned with the
\* last of them; no request follows a page without token; at most 3 pages
\* are fetched, and GooglePagesSearched counts them
C20_Pagination ==
    /\ \A k \in DOMAIN requests :
          /\ requests[k].page = Cardinality(PagesBefore(k))
          /\ requests[k].token = LastToken(k)
          /\ (~requests[k].resp.err /\ requests[k].resp.next = NoToken)
                => k = Len(requests)
    /\ Cardinality(PagesBefore(Len(requests) + 1)) <= 3
    /\ ad.stats.GooglePagesSearched = Cardinality(PagesBefore(Len(requests) + 1))
    /\ ad.pc = "done" /\ ~ad.ret.err =>
          ad.ret.Stats.GooglePagesSearched = Cardinality(PagesBefore(Len(requests) + 1))

\* a call has fetched three pages, the second one at the second request for it
C20_Witness ==
    /\ ad.pc = "done"
    /\ ~ad.ret.err
    /\ ad.ret.Stats.GooglePagesSearched = 3
    /\ Len(requests) = 4
    /\ requests[2].resp.notReady
    /\ requests[4].resp.next # NoToken


----------------------------------------------------------------------------
(* Page failures *)

\* the request k of the call failed with an error that is not the not-ready
\* one (a timeout, a transport error, an error payload)
TerminalErrorAt(k) ==
    /\ k \in DOMAIN requests
    /\ requests[k].resp.err
    /\ ~requests[k].resp.notReady

\* C21: a timeout or non-retryable error on the first page makes the call
\* return an error and no records; on a later page it ends the pagination and
\* the call succeeds with exactly the records of the pages fetched before
C21_PageFailure ==
    ad.pc = "done" =>
        \A k \in DOMAIN requests :
            TerminalErrorAt(k) =>
                /\ k = Len(requests)
                /\ IF requests[k].page = 0
                   THEN /\ ad.ret.err
                        /\ ad.ret.Restaurants = <<>>
                   ELSE /\ ~ad.ret.err
                        /\ ad.ret.Restaurants =
                              IF ad.kind = "nearby"
                              THEN sortRestaurantsByRating(ClaimKept(requests))
                              ELSE ClaimKept(requests)
                        /\ ad.ret.Stats.GooglePagesSearched =
                              Cardinality({j \in DOMAIN requests : ~requests[j].resp.err})

\* a call has fetched a page with records, failed on the second page with a
\* terminal error and returned the records of the first
C21_Witness ==
    /\ ad.pc = "done"
    /\ Len(requests) = 2
    /\ TerminalErrorAt(2)
    /\ requests[2].page = 1
    /\ ~ad.ret.err
    /\ Len(ad.ret.Restaurants) = 2


----------------------------------------------------------------------------
(* The two page loops on the same answers *)

\* the call a run through the page loop from state a, answered with the
\* responses resps in turn, as long as the loop asks for a page
RECURSIVE RunPages(_, _)
RunPages(a, resps) ==
    IF a.pc = "loop" /\ resps # <<>>
    THEN RunPages(PageLoop(a, Head(resps)), Tail(resps))
    ELSE IF a.pc = "after" THEN [a EXCEPT !.pc = "done", !.ret = AdapterResult(a)]
    ELSE a

\* the answers the provider gave to the call of the model
Responses == [k \in DOMAIN requests |-> requests[k].resp]

\* the text search answered with the answers the nearby search got
TextTwin == RunPages(StartedCall("text"), Responses)

\* C22: answered with the same responses, a text-search call and a
\* nearby-search call fetch the same pages and return the same number of
\* records
C22_Original ==
    (ad.pc = "done" /\ ad.kind = "nearby") =>
        /\ TextTwin.pc = "done"
        /\ TextTwin.ret.err = ad.ret.err
        /\ TextTwin.ret.Stats.GooglePagesSearched = ad.ret.Stats.GooglePagesSearched
        /\ Len(TextTwin.ret.Restaurants) = Len(ad.ret.Restaurants)


----------------------------------------------------------------------------
(* Photo references of the commercial adapters *)

genericPhotoReference == "GENERIC"

\* minRatingForPhoto = 4.0, in tenths of a star
minRatingForPhoto == 40

minReviewsForPhoto == 5

\* mutant of shouldUseGenericPhoto: an unknown rating counts as a low one
shouldUseGenericPhotoUnknownLow(photoRef, rating, reviewCount) ==
    IF photoRef = "" THEN TRUE
    ELSE IF photoRef = genericPhotoReference THEN TRUE
    ELSE IF rating < minRatingForPhoto THEN TRUE
    ELSE reviewCount < minReviewsForPhoto

shouldUseGenericPhoto(photoRef, rating, reviewCount) ==
    IF photoRef = "" THEN TRUE
    ELSE IF photoRef = genericPhotoReference THEN TRUE
    ELSE IF rating > 0 /\ rating < minRatingForPhoto THEN TRUE
    ELSE IF reviewCount < minReviewsForPhoto THEN TRUE
    ELSE FALSE

\* the photo reference, the review count and the rating both adapters put
\* in the record of a result they keep
PhotoFields(place) ==
    LET photoRef == IF Len(place.Photos) > 0 THEN place.Photos[1] ELSE ""
        reviewCount == IF place.UserRatingsTotal > 0 THEN place.UserRatingsTotal ELSE 0
        rating == place.Rating
    IN  [Rating |-> rating, ReviewCount |-> reviewCount,
         PhotoReference |-> IF shouldUseGenericPhoto(photoRef, rating, reviewCount)
                            THEN genericPhotoReference ELSE photoRef]

\* the photo tokens, ratings (in tenths) and review totals of a provider
\* result
PhotoChoices == {<<>>, <<"">>, <<"tokA">>, <<"tokB", "tokA">>}
PhotoRatings == {0, 10, 39, 40, 45, 50}
PhotoReviewTotals == {-1, 0, 4, 5, 100}

PhotoInit ==
    call \in {[fn |-> "PhotoFields", pc |-> "in",
               in |-> [Photos |-> ph, Rating |-> r, UserRatingsTotal |-> v],
               out |-> <<>>] :
                 ph \in PhotoChoices, r \in PhotoRatings, v \in PhotoReviewTotals}

PhotoConvert ==
    /\ call.fn = "PhotoFields"
    /\ call.pc = "in"
    /\ call' = [call EXCEPT !.pc = "done", !.out = PhotoFields(call.in)]
    /\ UNCHANGED <<cacheVars, dedupVars, searchVars, adapterVars, handlerVars, lockVars, fetchVars>>

InitPhoto ==
    CacheInit /\ DedupIdle /\ SearchIdle /\ AdapterIdle /\ HandlerIdle /\ LockIdle /\ FetchIdle /\ PhotoInit

SpecPhoto == InitPhoto /\ [][PhotoConvert]_vars

PhotoDone == call.fn = "PhotoFields" /\ call.pc = "done"

\* the provider result carries no photo token
NoPhotoToken(place) == place.Photos = <<>> \/ place.Photos[1] = ""

----------------------------------------------------------------------------
(* The calls of a fan-out *)

\* the calls the fan-out of the request has started, by goroutine
IssuedCalls == [t \in 1..gp.total |-> TaskSource(t)]

\* how many of the calls carry the source tag
IssuedCount(calls, kind, arg) ==
    Cardinality({t \in DOMAIN calls : calls[t] = Source(kind, arg)})

IssuedOfKind(calls, kind) ==
    Cardinality({t \in DOMAIN calls : calls[t].kind = kind})

----------------------------------------------------------------------------
(* The counters of a commercial search *)

\* the collecting loop of the fan-out takes the report at the head of the
\* channel
FanOutTakes == gp.pc = "collect" /\ gp'.pc = "collect" /\ gp'.i = gp.i + 1

\* the commercial path returns
GoogleReturnsNow == gp.pc \in {"simple", "collect"} /\ gp'.pc = "returned"

\* the provider queries the commercial path has issued when it returns
QueriesIssued == IF gp.pc = "simple" THEN 1 ELSE gp.total

SameCounters(s, t) ==
    /\ s.GooglePagesSearched = t.GooglePagesSearched
    /\ s.GoogleResultsRaw = t.GoogleResultsRaw
    /\ s.GoogleResultsFiltered = t.GoogleResultsFiltered

\* C25 as stated, step by step: the fan-out adds the counters of every
\* report of a call that succeeded to its sums and those of no other; the
\* stats a commercial search returns (single-category path and fan-out path
\* alike) carry these sums, and as GoogleSearchQueries the number of provider
\* queries issued for the search
C25_Original ==
    [][/\ FanOutTakes =>
            LET res == Head(resultsChan).res
            IN  IF res.err THEN SameCounters(gp'.stats, gp.stats)
                ELSE /\ gp'.stats.GooglePagesSearched =
                            gp.stats.GooglePagesSearched + res.Stats.GooglePagesSearched
                     /\ gp'.stats.GoogleResultsRaw =
                            gp.stats.GoogleResultsRaw + res.Stats.GoogleResultsRaw
                     /\ gp'.stats.GoogleResultsFiltered =
                            gp.stats.GoogleResultsFiltered + res.Stats.GoogleResultsFiltered
       /\ (GoogleReturnsNow /\ ~gp'.ret.err) =>
            /\ gp'.ret.Stats.GoogleSearchQueries = QueriesIssued
            /\ gp.pc = "collect" => SameCounters(gp'.ret.Stats, gp.stats)
      ]_vars


----------------------------------------------------------------------------
(* Reads, sweeps and the life of an entry *)

\* the TTL of the entry has elapsed at time t
Elapsed(item, t) == t >= item.expiresAt

\* a step of Get: the last operation is a Get and neither the clock nor the
\* record of the last Set has moved
IsGetStep == lastOp'.name = "Get" /\ now' = now /\ lastSet' = lastSet

\* C26: a Get, hit or miss, leaves the cache as it is: it removes no entry
\* (not even an expired one) and changes no anchor, records, stats or expiry
\* of an entry; the served-from-cache flag is set in the returned copy only
C26_GetReadOnly ==
    [][IsGetStep =>
          /\ items' = items
          /\ lastOp'.found => lastOp'.stats.CachedResult
      ]_vars

\* a Get has been served from a cache that also holds an entry whose TTL has
\* elapsed, and no stored entry carries the flag
C26_Witness ==
    /\ lastOp.name = "Get"
    /\ lastOp.found
    /\ lastOp.time = now
    /\ Len(items) = 2
    /\ \E i \in 1..Len(items) : Elapsed(items[i], now)
    /\ \A i \in 1..Len(items) : ~items[i].stats.CachedResult


\* a step of the sweep
IsCleanupStep == lastOp'.name = "Cleanup" /\ now' = now /\ lastSet' = lastSet

\* C27: one run of the sweep removes every entry whose expiry has passed and
\* no other entry; the entries that survive keep their content and their
\* relative order
C27_SweepExact ==
    [][IsCleanupStep =>
          items' = SelectSeq(items, LAMBDA item : ~Elapsed(item, now))
      ]_vars

\* a sweep has removed one entry of two and kept the other
C27_Witness ==
    /\ lastOp.name = "Cleanup"
    /\ lastOp.removed = 1
    /\ lastOp.time = now
    /\ Len(items) = 1
    /\ ~Elapsed(items[1], now)


\* the entries of its at the indices of keep, in order
Restrict(its, keep) == SelectSeq([i \in 1..Len(its) |-> IF i \in keep THEN <<its[i]>> ELSE <<>>],
                                 LAMBDA x : x # <<>>)

\* a sweep step takes to absent only slots whose TTL has elapsed, and leaves
\* the other slots as they are
SweepDropsElapsedOnly ==
    \E keep \in SUBSET (1..Len(items)) :
        /\ \A i \in 1..Len(items) : ~Elapsed(items[i], now) => i \in keep
        /\ items' = [k \in 1..Len(Restrict(items, keep)) |-> Restrict(items, keep)[k][1]]

\* C28 as stated: a slot moves only along absent -> present(unexpired) ->
\* present(expired) -> absent: no step takes a slot from expired back to
\* unexpired, a new slot starts unexpired, and a slot goes to absent only
\* from expired and only by the sweep
C28_Original ==
    [][IF IsCleanupStep
       THEN SweepDropsElapsedOnly
       ELSE /\ Len(items') >= Len(items)
            /\ \A i \in 1..Len(items) :
                  ~(Elapsed(items[i], now) /\ ~Elapsed(items'[i], now'))
            /\ \A i \in (Len(items) + 1)..Len(items') : ~Elapsed(items'[i], now')
      ]_vars

\* C28, amended: a slot moves along absent -> present(unexpired) ->
\* present(expired) -> absent, and a Set within the matching radius of a
\* present slot, expired or not, takes that slot to present(unexpired) with
\* the anchor, records and expiry of the Set; no other step takes a slot from
\* expired to unexpired, a new slot starts unexpired, and a slot goes to
\* absent only from expired and only by the sweep
C28_LifeCycle ==
    [][IF IsCleanupStep
       THEN SweepDropsElapsedOnly
       ELSE /\ Len(items') >= Len(items)
            /\ \A i \in 1..Len(items) :
                  (Elapsed(items[i], now) /\ ~Elapsed(items'[i], now')) =>
                      /\ IsSetStep
                      /\ Near(lastOp'.lat, lastOp'.lon, items[i].lat, items[i].lon)
                      /\ items'[i] = cacheItem(lastOp'.lat, lastOp'.lon,
                                               lastOp'.restaurants, lastOp'.stats,
                                               now + cacheTTL)
            /\ \A i \in (Len(items) + 1)..Len(items') : ~Elapsed(items'[i], now')
      ]_vars

\* a Set has taken the slot of an entry whose TTL had elapsed back to
\* unexpired, next to an entry whose TTL has elapsed as well
C28_Witness ==
    /\ lastOp.name = "Set"
    /\ lastOp.time = now
    /\ lastSet.overwrote = "expired"
    /\ Len(items) = 2
    /\ \E i, j \in 1..Len(items) :
          /\ items[i] = LastSetItem
          /\ ~Elapsed(items[i], now)
          /\ Elapsed(items[j], now)


----------------------------------------------------------------------------
(* LocationCache.mu: Get, Set and cleanup as the goroutines run them *)

\* a goroutine has called lc.mu.Lock() and waits for the lock
WriterWaits == \E q \in Threads : threads[q].pc = "lock"

\* sync.RWMutex.RLock returns: no writer holds the lock and none waits for it
CanRLock(m) == ~m.writer /\ ~WriterWaits

\* mutant of CanLock: a writer does not wait for the readers to leave
CanLockNoWait(m) == ~m.writer

\* sync.RWMutex.Lock returns: no writer and no reader holds the lock
CanLock(m) == ~m.writer /\ m.readerCount = 0

\* a goroutine is in the middle of its write to lc.items
HalfWritten == \E q \in Threads : threads[q].pc = "writing"

\* Get: lc.mu.RLock()
GetRLock(p, lat) ==
    /\ p \in Handlers
    /\ threads[p].pc = "idle"
    /\ CanRLock(mu)
    /\ mu' = [mu EXCEPT !.readerCount = @ + 1]
    /\ threads' = [threads EXCEPT ![p] = [@ EXCEPT !.pc = "rlocked", !.op = "Get", !.lat = lat]]
    /\ UNCHANGED <<cacheVars, dedupVars, searchVars, adapterVars, handlerVars, callVars, fetchVars>>

\* Get: the loop over lc.items up to the return statement; saw records that
\* the items were read while a write to them was under way
GetRead(p) ==
    /\ threads[p].pc = "rlocked"
    /\ threads' = [threads EXCEPT ![p] = [@ EXCEPT !.pc = "read", !.saw = @ \/ HalfWritten]]
    /\ UNCHANGED <<mu, cacheVars, dedupVars, searchVars, adapterVars, handlerVars, callVars, fetchVars>>

\* Get: the deferred lc.mu.RUnlock()
GetRUnlock(p) ==
    /\ threads[p].pc = "read"
    /\ mu' = [mu EXCEPT !.readerCount = @ - 1]
    /\ threads' = [threads EXCEPT ![p] = [@ EXCEPT !.pc = "idle", !.op = "none", !.lat = 0]]
    /\ UNCHANGED <<cacheVars, dedupVars, searchVars, adapterVars, handlerVars, callVars, fetchVars>>

\* Set is called by a handler, cleanup is woken by its ticker: the goroutine
\* calls lc.mu.Lock()
CallLock(p, lat) ==
    /\ threads[p].pc = "idle"
    /\ p = "cleanup" => lat = 0
    /\ threads' = [threads EXCEPT ![p] = [@ EXCEPT
          !.pc = "lock", !.op = IF p = "cleanup" THEN "cleanup" ELSE "Set", !.lat = lat]]
    /\ UNCHANGED <<mu, cacheVars, dedupVars, searchVars, adapterVars, handlerVars, callVars, fetchVars>>

\* lc.mu.Lock() returns
LockAcquire(p) ==
    /\ threads[p].pc = "lock"
    /\ CanLock(mu)
    /\ mu' = [mu EXCEPT !.writer = TRUE]
    /\ threads' = [threads EXCEPT ![p] = [@ EXCEPT !.pc = "locked"]]
    /\ UNCHANGED <<cacheVars, dedupVars, searchVars, adapterVars, handlerVars, callVars, fetchVars>>

\* the write to lc.items starts: the element or the slice is being stored
WriteBegin(p) ==
    /\ threads[p].pc = "locked"
    /\ threads[p].op = "Set" =>
          (SetIndex(items, threads[p].lat, 0) = 0 => Len(items) < MaxItems)
    /\ threads' = [threads EXCEPT ![p] = [@ EXCEPT !.pc = "writing"]]
    /\ UNCHANGED <<mu, cacheVars, dedupVars, searchVars, adapterVars, handlerVars, callVars, fetchVars>>

\* the write to lc.items is complete: lc.items[i] = cacheItem{...} or
\* lc.items = append(...) in Set, lc.items = newItems in cleanup
WriteEnd(p) ==
    /\ threads[p].pc = "writing"
    /\ items' = IF threads[p].op = "Set"
                THEN SetItems(items, now, threads[p].lat, 0,
                              StoredRestaurants(1), StoredStats(1))
                ELSE CleanupItems(items, now)
    /\ threads' = [threads EXCEPT ![p] = [@ EXCEPT !.pc = "written"]]
    /\ UNCHANGED <<mu, now, lastOp, lastSet, dedupVars, searchVars, adapterVars, handlerVars, callVars, fetchVars>>

\* lc.mu.Unlock()
Unlock(p) ==
    /\ threads[p].pc = "written"
    /\ mu' = [mu EXCEPT !.writer = FALSE]
    /\ threads' = [threads EXCEPT ![p] = [@ EXCEPT !.pc = "idle", !.op = "none", !.lat = 0]]
    /\ UNCHANGED <<cacheVars, dedupVars, searchVars, adapterVars, handlerVars, callVars, fetchVars>>

\* time passes
LockTick == Tick /\ UNCHANGED <<dedupVars, searchVars, adapterVars, handlerVars, callVars, lockVars, fetchVars>>

LockNext ==
    \/ \E p \in Handlers, lat \in Lats : GetRLock(p, lat)
    \/ \E p \in Threads : GetRead(p)
    \/ \E p \in Threads : GetRUnlock(p)
    \/ \E p \in Threads, lat \in Lats : CallLock(p, lat)
    \/ \E p \in Threads : LockAcquire(p)
    \/ \E p \in Threads : WriteBegin(p)
    \/ \E p \in Threads : WriteEnd(p)
    \/ \E p \in Threads : Unlock(p)
    \/ LockTick

\* the goroutines start outside an empty cache
InitLock == CacheInit /\ DedupIdle /\ SearchIdle /\ AdapterIdle /\ HandlerIdle /\ CallIdle /\ LockIdle /\ FetchIdle

SpecLock == InitLock /\ [][LockNext]_vars

\* the goroutine is between its RLock and its RUnlock
ReaderInside(p) == threads[p].pc \in {"rlocked", "read"}

\* the goroutine is between its Lock and its Unlock
WriterInside(p) == threads[p].pc \in {"locked", "writing", "written"}

\* C29: a Set or a sweep never runs while another Set, a sweep or a Get is
\* inside the cache, so that no Get reads a half-written entry or a
\* half-filtered list; Gets may be inside together
C29_ReadersWriter ==
    /\ \A p, q \in Threads :
          (p # q /\ WriterInside(p)) => ~(WriterInside(q) \/ ReaderInside(q))
    /\ \A p \in Threads : ~threads[p].saw
    /\ mu.readerCount = Cardinality({p \in Threads : ReaderInside(p)})
    /\ mu.writer <=> \E p \in Threads : WriterInside(p)

\* two Gets are inside the cache at the same time, one of them past its read
\* of the items, which hold an entry
C29_Witness ==
    /\ ReaderInside("handler1")
    /\ threads["handler2"].pc = "read"
    /\ mu.readerCount = 2
    /\ Len(items) = 1


----------------------------------------------------------------------------
(* Handlers and a failed aggregation *)

\* a handler has served a request with the error of the aggregator
ServesError == req'.seq # req.seq /\ req'.status = "error"

\* C30: when the aggregator returns an error, the handler (bot or HTTP)
\* performs no Set: the cache is left exactly as it was before the request
C30_NoSetOnError ==
    [][ServesError => items' = items]_vars

\* the HTTP handler has answered a request without keyword with the error of
\* the aggregator, after a miss on a cache that holds an entry
C30_Witness ==
    /\ req.handler = "api"
    /\ req.keyword = ""
    /\ req.status = "error"
    /\ req.searched
    /\ ~req.found
    /\ Len(items) = 1


----------------------------------------------------------------------------
(* The result channels *)

\* the tasks of the fan-out whose report is in the channel
InChannel == {resultsChan[n].task : n \in DOMAIN resultsChan}

\* a goroutine of the both-mode aggregator has not sent its report yet
BothSenderPending == pc = "both" /\ (osmRunning \/ gp.pc # "returned")

\* C31: every task of the fan-out and of the both-mode aggregator sends one
\* report, and the send never blocks: whenever a task has its report to
\* send the channel has room for it; once the collector has returned no task
\* is left with a report to send
C31_NoBlockedReporter ==
    /\ (FanOutUsed /\ gp.pc = "collect") =>
          /\ \A t \in tasks : Len(resultsChan) < ChanCap(gp.total)
          /\ Cardinality(InChannel) = Len(resultsChan)
          /\ tasks \cap InChannel = {}
          /\ tasks \cap Range(gp.collected) = {}
          /\ InChannel \cap Range(gp.collected) = {}
          /\ tasks \cup InChannel \cup Range(gp.collected) = 1..gp.total
    /\ (FanOutUsed /\ gp.pc = "returned") => tasks = {} /\ resultsChan = <<>>
    /\ BothSenderPending => Len(bothChan) < BothSearches
    /\ (apiProvider = "both" /\ pc = "done") =>
          ~osmRunning /\ gp.pc = "returned" /\ bothChan = <<>>

\* three of the four tasks of a fan-out have sent their reports, none of
\* which the collector has taken, and the last one is still to send
C31_Witness ==
    /\ FanOutUsed
    /\ gp.pc = "collect"
    /\ gp.total = 4
    /\ Len(resultsChan) = 3
    /\ Cardinality(tasks) = 1
    /\ gp.i = 0


----------------------------------------------------------------------------
(* Slots and neighbourhoods *)

\* C32 as stated: no two entries of the cache have anchors within the
\* matching radius of each other
C32_Original ==
    \A i, j \in 1..Len(items) :
        i # j => ~Near(items[i].lat, items[i].lon, items[j].lat, items[j].lon)


\* C33 as stated: at every clock value Get and the sweep agree on the expiry
\* of every entry: an entry Get still serves now is one a sweep running now
\* keeps, and an entry a sweep running now keeps is one Get does not skip
C33_Original ==
    \A i \in 1..Len(items) :
        /\ ~GetSkips(now, items[i]) =>
              \E k \in 1..Len(CleanupItems(items, now)) :
                  CleanupItems(items, now)[k] = items[i]
        /\ CleanupKeeps(now, items[i]) => ~GetSkips(now, items[i])


----------------------------------------------------------------------------
(* The dedup counters of a search *)

\* C34 as stated: in the result of every search path (commercial
\* single-category, commercial fan-out, community, both) TotalAfterDedup is
\* the number of records returned, and it is at most TotalBeforeDedup
C34_Original ==
    (pc = "done" /\ ~result.err) =>
        /\ result.Stats.TotalAfterDedup = Len(result.Restaurants)
        /\ result.Stats.TotalAfterDedup <= result.Stats.TotalBeforeDedup


----------------------------------------------------------------------------
(* The handlers and the shared cache *)

\* the record lists an aggregation for the category set can produce
ProducedFor(categories) ==
    {out.Restaurants.elems :
        out \in {o \in AggregatorReturns(categories, "") : ~o.err}}

\* the last request was answered from the cache
ServedFromCache == req.handler # "none" /\ req.found /\ ~req.searched

\* C35 as stated: the records served from the cache to a request with the
\* category set K were produced by an aggregation for K
C35_Original ==
    ServedFromCache => req.served \in ProducedFor(req.categories)


\* a handler serves a request
ServesRequest == req'.seq # req.seq

\* C39: an HTTP request with a keyword neither reads nor writes the cache: it
\* always runs the aggregator, answers with what the aggregator returned and
\* leaves the cache exactly as it was
C39_KeywordBypass ==
    [][(ServesRequest /\ req'.handler = "api" /\ req'.keyword # "") =>
          /\ items' = items
          /\ ~req'.found
          /\ req'.searched
          /\ req'.status = "ok" =>
                req'.served \in {out.Restaurants.elems :
                    out \in {o \in AggregatorReturns(req'.categories,
                                                     ResolveKeyword(req'.keyword)) :
                                ~o.err}}
      ]_vars

\* a request with a keyword has been answered by the aggregator while the
\* cache holds an unexpired entry for each of the two points
C39_Witness ==
    /\ req.handler = "api"
    /\ req.keyword = "vegan"
    /\ req.searched
    /\ req.status = "ok"
    /\ req.served = <<>>
    /\ Len(items) = 2
    /\ \A i \in 1..Len(items) :
          ~GetSkips(now, items[i]) /\ Len(items[i].restaurants.elems) > 0


\* C40: every location message is answered with at least one message: a
\* restaurant list, an explicit no-results notice or an error notice
C40_Original ==
    req.handler = "location" => req.messages >= 1


\* C36: a paginated nearby search sends at most MaxRequests requests, the
\* number its deadline leaves room for, and has left its page loop once it
\* has sent them, also when every request for a later page is answered with
\* the not-ready error
C36_PaginationEnds ==
    ad.kind = "nearby" =>
        /\ Len(requests) <= MaxRequests
        /\ Len(requests) = MaxRequests => ad.pc # "loop"

\* a nearby search whose requests for the second page were all answered with
\* the not-ready error until its deadline, and which has returned
C36_Witness ==
    /\ ad.kind = "nearby"
    /\ ad.pc = "done"
    /\ Len(requests) = MaxRequests
    /\ ~requests[1].resp.err
    /\ \A i \in 2..(MaxRequests - 1) : requests[i].resp.notReady
    /\ requests[MaxRequests].page = 1


----------------------------------------------------------------------------
(* The /api/photo handler and the photo storage directory *)

\* the photo_reference parameter of the requests
PhotoRefs == {"", genericPhotoReference, "tokA"}

\* os.Stat(storedPath) succeeds with fileInfo.Size() > 0: a photo or the
\* placeholder is stored under the name
OnDisk(filename) == photoFiles[filename] # "none"

\* the handler up to its read of the storage directory: the missing
\* place_id, the generic marker or the empty reference, the file on disk,
\* or the way to the provider (an API key is configured)
PhotoServe(p, placeID, photoRef) ==
    /\ photoReqs[p].pc = "idle"
    /\ photoReqs' = [photoReqs EXCEPT ![p] =
          IF placeID = <<>>
          THEN [pc |-> "idle", placeID |-> placeID, photoRef |-> photoRef,
                fetched |-> "none", source |-> "bad_request"]
          ELSE IF photoRef = genericPhotoReference \/ photoRef = ""
          THEN [pc |-> "idle", placeID |-> placeID, photoRef |-> photoRef,
                fetched |-> "none", source |-> "generic"]
          ELSE IF OnDisk(Filename(placeID))
          THEN [pc |-> "idle", placeID |-> placeID, photoRef |-> photoRef,
                fetched |-> "none", source |-> "disk"]
          ELSE [pc |-> "fetch", placeID |-> placeID, photoRef |-> photoRef,
                fetched |-> "none", source |-> "none"]]
    /\ UNCHANGED <<photoFiles, photoCalls>>
    /\ UNCHANGED <<cacheVars, dedupVars, searchVars, adapterVars, handlerVars, callVars, lockVars>>

\* resp, err := http.Get(photoURL): the provider's photo API is called; the
\* answer is a photo, or a failure (an error, a status other than 200, a
\* body that cannot be read or is shorter than 1000 bytes)
PhotoGet(p) ==
    /\ photoReqs[p].pc = "fetch"
    /\ photoCalls' = [photoCalls EXCEPT ![photoReqs[p].placeID] = @ + 1]
    /\ \E answer \in {"photo", "failed"} :
          photoReqs' = [photoReqs EXCEPT ![p].pc = "write", ![p].fetched = answer]
    /\ UNCHANGED photoFiles
    /\ UNCHANGED <<cacheVars, dedupVars, searchVars, adapterVars, handlerVars, callVars, lockVars>>

\* os.WriteFile(storedPath, ...) of the photo, or of the placeholder by
\* saveGenericPlaceholderForFailedPhoto, and the answer
PhotoWrite(p) ==
    /\ photoReqs[p].pc = "write"
    /\ photoFiles' = [photoFiles EXCEPT ![Filename(photoReqs[p].placeID)] =
          IF photoReqs[p].fetched = "photo" THEN "photo" ELSE "placeholder"]
    /\ photoReqs' = [photoReqs EXCEPT
          ![p].pc = "idle",
          ![p].source = IF photoReqs[p].fetched = "photo" THEN "api" ELSE "fallback"]
    /\ UNCHANGED photoCalls
    /\ UNCHANGED <<cacheVars, dedupVars, searchVars, adapterVars, handlerVars, callVars, lockVars>>

FetchNext ==
    \/ \E p \in PhotoGoroutines, placeID \in PhotoPlaceIDs \cup {<<>>},
          photoRef \in PhotoRefs : PhotoServe(p, placeID, photoRef)
    \/ \E p \in PhotoGoroutines : PhotoGet(p)
    \/ \E p \in PhotoGoroutines : PhotoWrite(p)

\* only /api/photo requests are served
InitFetch == CacheInit /\ DedupIdle /\ SearchIdle /\ AdapterIdle /\ HandlerIdle /\ LockIdle /\ CallIdle /\ FetchIdle

SpecFetch == InitFetch /\ [][FetchNext]_vars

\* C37: the provider's photo API is called at most once for a place_id,
\* whatever the order and the interleaving of the /api/photo requests
C37_Original ==
    \A placeID \in PhotoPlaceIDs : photoCalls[placeID] <= 1


----------------------------------------------------------------------------
(* The sweep under fair scheduling *)

\* the points of the requests: two points further apart than the radius
SweepLats == {0, MaxLat}

SweepNext ==
    \/ \E p \in Handlers, lat \in SweepLats : GetRLock(p, lat)
    \/ \E p \in Threads : GetRead(p)
    \/ \E p \in Threads : GetRUnlock(p)
    \/ \E p \in Threads, lat \in SweepLats : CallLock(p, lat)
    \/ \E p \in Threads : LockAcquire(p)
    \/ \E p \in Threads : WriteBegin(p)
    \/ \E p \in Threads : WriteEnd(p)
    \/ \E p \in Threads : Unlock(p)
    \/ LockTick

\* the ticker of cleanup keeps firing (for range ticker.C), a goroutine that
\* waits in lc.mu.Lock() is handed the lock once it is free (the mutex hands
\* over to a starved waiter), and every goroutine inside the lock keeps
\* running until it has released it
SweepFair ==
    /\ WF_vars(CallLock("cleanup", 0))
    /\ SF_vars(LockAcquire("cleanup"))
    /\ \A p \in Threads :
          /\ WF_vars(GetRead(p))
          /\ WF_vars(GetRUnlock(p))
          /\ WF_vars(WriteBegin(p))
          /\ WF_vars(WriteEnd(p))
          /\ WF_vars(Unlock(p))

SpecSweep == InitLock /\ [][SweepNext]_vars /\ SweepFair

\* the entry anchored at lat whose expiry is t is in lc.items
HasEntry(lat, t) ==
    \E i \in 1..Len(items) : items[i].lat = lat /\ items[i].expiresAt = t

\* C38: under fair scheduling of the ticker and of the lock, an entry whose
\* expiry has passed leaves lc.items: the sweep removes it, or a Set within
\* its radius replaces it by an entry with a later expiry
C38_SweepLiveness ==
    \A lat \in SweepLats, t \in 1..MaxTime :
        (HasEntry(lat, t) /\ now >= t) ~> ~HasEntry(lat, t)

\* the sweep holds the lock and is replacing lc.items, which holds an entry
\* whose expiry has passed and one that has not expired
C38_Witness ==
    /\ threads["cleanup"].pc = "writing"
    /\ \E i \in 1..Len(items) : Elapsed(items[i], now)
    /\ \E i \in 1..Len(items) : ~Elapsed(items[i], now)

=============================================================================
